---------------------------- MODULE Spec2Model ----------------------------
(***************************************************************************)
(* A model of v2ray-healthcheck: the descriptor parser (src/src/parser.py),*)
(* the deduplicator (src/src/config_sources.py), the reachability prober   *)
(* (src/src/tcp_checker.py), the functional validator                      *)
(* (src/src/xray_validator.py) and the pipeline orchestrator               *)
(* (src/v2ray_checker.py).                                                 *)
(*                                                                         *)
(* Text is modelled at token granularity: a line is a sequence of string   *)
(* tokens, the delimiters that urllib.parse acts on ("@", ":", "?", "&",   *)
(* "=", "#", "/") being tokens of their own.  Field values are TLA+        *)
(* strings obtained by concatenating tokens.  Python's None is NoneV for   *)
(* string-valued fields and the empty tuple for the other optional fields. *)
(***************************************************************************)
EXTENDS Integers, Sequences, FiniteSets, TLC

VARIABLES
    p_line, p_result,                       \* one call of parse_config_line
    lines, d_i, seen_keys, configs, d_pc,   \* one call of deduplicate
    d_parsed,                               \* what the parser returned for
                                            \* each line handled so far
    t_proxy, t_pc, t_sock, t_cipher,        \* one call of test_config_tcp
    t_probe, t_ret,
    x_proxy, x_pc, x_port, x_config,        \* one call of test_config_with_xray
    x_file, x_proc, x_latency, x_raised, x_ret,
    x_trace,                                \* the steps the call has reached,
                                            \* each with the child's state then
    r_pc, r_configs, r_f1, r_seen1,         \* one call of ConfigCheckerBot.run:
    passed, tcp_passed_configs,             \* the futures of both phases, the
    r_f2, r_seen2, working_configs,         \* lists it builds and the report
    r_report,
    u_pc, u_port, u_listen,                 \* the phase-2 workers and their ports
    k_a, k_b, k_keys,                       \* two candidates and their keys
    b_proxy, b_port, b_origin, b_result,    \* one call of build_config
    s_pc, s_port, s_steps, s_ret            \* one call of _test_through_proxy

pvars == <<p_line, p_result>>
dvars == <<lines, d_i, seen_keys, configs, d_pc, d_parsed>>
tvars == <<t_proxy, t_pc, t_sock, t_cipher, t_probe, t_ret>>
xvars == <<x_proxy, x_port, x_config, x_file, x_proc, x_latency, x_raised, x_ret, x_pc,
           x_trace>>
rvars == <<r_pc, r_configs, r_f1, r_seen1, passed, tcp_passed_configs, r_f2, r_seen2,
           working_configs, r_report>>
uvars == <<u_pc, u_port, u_listen>>
kvars == <<k_a, k_b, k_keys>>
bvars == <<b_proxy, b_port, b_origin, b_result>>
svars == <<s_pc, s_port, s_steps, s_ret>>

-----------------------------------------------------------------------------
(* Python values *)

NoneV == "<None>"
Nothing == <<>>
Some(v) == <<v>>

\* str(v) as an f-string renders it
Str(v) == IF v = NoneV THEN "None" ELSE v

\* truth value of an Optional[str]
Truthy(v) == v # NoneV /\ v # ""

\* truth value of an Optional[bool]
TruthyBool(o) == o # Nothing /\ o[1]

\* a or b, on Optional[str]
Or(a, b) == IF Truthy(a) THEN a ELSE b

-----------------------------------------------------------------------------
(* Token sequences *)

RECURSIVE Join(_)
Join(s) == IF s = <<>> THEN "" ELSE Head(s) \o Join(Tail(s))

\* str.find: the first position of token t, 0 when absent
IndexOf(s, t) ==
    IF \E i \in 1..Len(s) : s[i] = t
    THEN CHOOSE i \in 1..Len(s) : s[i] = t /\ \A j \in 1..(i - 1) : s[j] # t
    ELSE 0

\* the first position of any token of T, 0 when absent
IndexOfAny(s, T) ==
    IF \E i \in 1..Len(s) : s[i] \in T
    THEN CHOOSE i \in 1..Len(s) : s[i] \in T /\ \A j \in 1..(i - 1) : s[j] \notin T
    ELSE 0

\* str.rfind
LastIndexOf(s, t) ==
    IF \E i \in 1..Len(s) : s[i] = t
    THEN CHOOSE i \in 1..Len(s) : s[i] = t /\ \A j \in (i + 1)..Len(s) : s[j] # t
    ELSE 0

Before(s, i) == SubSeq(s, 1, i - 1)
After(s, i) == SubSeq(s, i + 1, Len(s))

\* str.split(t)
RECURSIVE SplitOn(_, _)
SplitOn(s, t) ==
    IF IndexOf(s, t) = 0 THEN <<s>>
    ELSE <<Before(s, IndexOf(s, t))>> \o SplitOn(After(s, IndexOf(s, t)), t)

\* str.strip(): leading and trailing whitespace removed
RECURSIVE LStrip(_)
LStrip(s) == IF s # <<>> /\ Head(s) = " " THEN LStrip(Tail(s)) ELSE s

RECURSIVE RStrip(_)
RStrip(s) == IF s # <<>> /\ s[Len(s)] = " " THEN RStrip(Before(s, Len(s))) ELSE s

Strip(s) == RStrip(LStrip(s))

\* str.lower() on the host names the model draws
Lower(s) ==
    CASE s = "HOST" -> "host"
      [] s = "Host" -> "host"
      [] OTHER -> s

\* urllib.parse.unquote on the texts the model draws
Unquote(s) ==
    CASE s = "name%201" -> "name 1"
      [] s = "%2Fx" -> "/x"
      [] OTHER -> s

\* str.isdigit() and int(): the decimal texts the model draws
DecimalValue ==
    [t \in {"0", "1", "80", "443", "8388", "65535", "65536", "99999"} |->
        CASE t = "0" -> 0 [] t = "1" -> 1 [] t = "80" -> 80 [] t = "443" -> 443
          [] t = "8388" -> 8388 [] t = "65535" -> 65535 [] t = "65536" -> 65536
          [] OTHER -> 99999]

IsDigit(t) == t \in DOMAIN DecimalValue

-----------------------------------------------------------------------------
(* urllib.parse.urlparse, on a line whose first token is "<scheme>://" *)

UrlRest(url) == Tail(url)

UrlNetloc(url) ==
    LET r == UrlRest(url)
        i == IndexOfAny(r, {"/", "?", "#"})
    IN  IF i = 0 THEN r ELSE Before(r, i)

UrlAfterNetloc(url) ==
    LET r == UrlRest(url)
        i == IndexOfAny(r, {"/", "?", "#"})
    IN  IF i = 0 THEN <<>> ELSE SubSeq(r, i, Len(r))

UrlFragment(url) ==
    LET r == UrlAfterNetloc(url)
        i == IndexOf(r, "#")
    IN  IF i = 0 THEN "" ELSE Join(After(r, i))

UrlQuery(url) ==
    LET r == UrlAfterNetloc(url)
        h == IndexOf(r, "#")
        u == IF h = 0 THEN r ELSE Before(r, h)
        q == IndexOf(u, "?")
    IN  IF q = 0 THEN <<>> ELSE After(u, q)

UrlUserinfo(url) ==
    LET n == UrlNetloc(url)
        a == LastIndexOf(n, "@")
    IN  [have |-> a # 0, info |-> IF a = 0 THEN <<>> ELSE Before(n, a)]

UrlHostinfo(url) ==
    LET n == UrlNetloc(url)
    IN  After(n, LastIndexOf(n, "@"))

UrlUsername(url) ==
    LET u == UrlUserinfo(url)
        c == IndexOf(u.info, ":")
    IN  IF ~u.have THEN NoneV
        ELSE IF c = 0 THEN Join(u.info) ELSE Join(Before(u.info, c))

UrlPassword(url) ==
    LET u == UrlUserinfo(url)
        c == IndexOf(u.info, ":")
    IN  IF ~u.have \/ c = 0 THEN NoneV ELSE Join(After(u.info, c))

UrlHostname(url) ==
    LET h == UrlHostinfo(url)
        c == IndexOf(h, ":")
        name == IF c = 0 THEN Join(h) ELSE Join(Before(h, c))
    IN  IF name = "" THEN NoneV ELSE Lower(name)

\* the port property: None, an int in 0..65535, or ValueError
UrlPort(url) ==
    LET h == UrlHostinfo(url)
        c == IndexOf(h, ":")
        text == IF c = 0 THEN "" ELSE Join(After(h, c))
    IN  IF text = "" THEN [tag |-> "none", v |-> 0]
        ELSE IF ~IsDigit(text) THEN [tag |-> "raise", v |-> 0]
        ELSE IF DecimalValue[text] > 65535 THEN [tag |-> "raise", v |-> 0]
        ELSE [tag |-> "int", v |-> DecimalValue[text]]

\* urllib.parse.parse_qs(query)[key][0], or dflt when the key has no value
RECURSIVE QsFirst(_, _, _)
QsFirst(pairs, key, dflt) ==
    IF pairs = <<>> THEN dflt
    ELSE LET pair == Head(pairs)
             e == IndexOf(pair, "=")
         IN  IF e # 0 /\ Join(After(pair, e)) # ""
                /\ Unquote(Join(Before(pair, e))) = key
             THEN Unquote(Join(After(pair, e)))
             ELSE QsFirst(Tail(pairs), key, dflt)

QsGet(query, key, dflt) == QsFirst(SplitOn(query, "&"), key, dflt)

-----------------------------------------------------------------------------
(* base64 and JSON *)

\* a JSON value: a string, a number or null
JStr(s) == [t |-> "str", s |-> s, n |-> 0]
JNum(n) == [t |-> "num", s |-> "", n |-> n]
JNull == [t |-> "null", s |-> "", n |-> 0]

\* The base64 texts the model draws, as handed to base64.b64decode: alpha
\* counts the characters of the base64 alphabet, pad the '=' characters (the
\* other characters are discarded by the decoder), utf8 says whether the
\* decoded bytes are UTF-8, chars is the decoded text split at its colons,
\* json is what json.loads makes of it, obj the decoded JSON object. (The
\* JSON payloads are drawn in vmess lines only: their chars are left out.)
B64Base ==
    <<
      [text |-> "",
       alpha |-> 0, pad |-> 0, utf8 |-> TRUE, chars |-> <<>>,
       json |-> "invalid", obj |-> <<>>],
      [text |-> "eyJhZGQiOiJob3N0IiwicG9ydCI6IjQ0MyIsImlkIjoidXVpZCIsInBzIjoibmFtZTEiLCJuZXQiOiJ3cyIsInBhdGgiOiIveCIsInRscyI6InRscyIsImFpZCI6IjAifQ==",
       alpha |-> 130, pad |-> 2, utf8 |-> TRUE, chars |-> <<>>,
       json |-> "object", obj |-> ("add" :> JStr("host")) @@ ("port" :> JStr("443")) @@ ("id" :> JStr("uuid")) @@ ("ps" :> JStr("name1")) @@ ("net" :> JStr("ws")) @@ ("path" :> JStr("/x")) @@ ("tls" :> JStr("tls")) @@ ("aid" :> JStr("0"))],
      [text |-> "eyJhZGQiOiJob3N0IiwicG9ydCI6IjQ0MyIsImlkIjoidXVpZCIsInBzIjoibmFtZTIiLCJuZXQiOiJ3cyIsInBhdGgiOiIveCIsInRscyI6InRscyIsImFpZCI6IjAifQ==",
       alpha |-> 130, pad |-> 2, utf8 |-> TRUE, chars |-> <<>>,
       json |-> "object", obj |-> ("add" :> JStr("host")) @@ ("port" :> JStr("443")) @@ ("id" :> JStr("uuid")) @@ ("ps" :> JStr("name2")) @@ ("net" :> JStr("ws")) @@ ("path" :> JStr("/x")) @@ ("tls" :> JStr("tls")) @@ ("aid" :> JStr("0"))],
      [text |-> "eyJhZGQiOiJob3N0IiwicG9ydCI6NDQzLCJpZCI6InV1aWQifQ==",
       alpha |-> 50, pad |-> 2, utf8 |-> TRUE, chars |-> <<>>,
       json |-> "object", obj |-> ("add" :> JStr("host")) @@ ("port" :> JNum(443)) @@ ("id" :> JStr("uuid"))],
      [text |-> "eyJhZGQiOiJIT1NUIiwicG9ydCI6NDQzLCJpZCI6InV1aWQifQ==",
       alpha |-> 50, pad |-> 2, utf8 |-> TRUE, chars |-> <<>>,
       json |-> "object", obj |-> ("add" :> JStr("HOST")) @@ ("port" :> JNum(443)) @@ ("id" :> JStr("uuid"))],
      [text |-> "eyJpZCI6InV1aWQifQ==",
       alpha |-> 18, pad |-> 2, utf8 |-> TRUE, chars |-> <<>>,
       json |-> "object", obj |-> ("id" :> JStr("uuid"))],
      [text |-> "eyJhZGQiOiJob3N0IiwicG9ydCI6ImFiYyIsImlkIjoidXVpZCJ9",
       alpha |-> 52, pad |-> 0, utf8 |-> TRUE, chars |-> <<>>,
       json |-> "object", obj |-> ("add" :> JStr("host")) @@ ("port" :> JStr("abc")) @@ ("id" :> JStr("uuid"))],
      [text |-> "eyJhZGQiOiJob3N0IiwicG9ydCI6bnVsbCwiaWQiOiJ1dWlkIn0=",
       alpha |-> 51, pad |-> 1, utf8 |-> TRUE, chars |-> <<>>,
       json |-> "object", obj |-> ("add" :> JStr("host")) @@ ("port" :> JNull) @@ ("id" :> JStr("uuid"))],
      [text |-> "eyJhZGQiOiJob3N0IiwicG9ydCI6MCwiaWQiOiJ1dWlkIn0=",
       alpha |-> 47, pad |-> 1, utf8 |-> TRUE, chars |-> <<>>,
       json |-> "object", obj |-> ("add" :> JStr("host")) @@ ("port" :> JNum(0)) @@ ("id" :> JStr("uuid"))],
      [text |-> "eyJhZGQiOiJob3N0IiwicG9ydCI6NzAwMDAsImlkIjoidXVpZCJ9",
       alpha |-> 52, pad |-> 0, utf8 |-> TRUE, chars |-> <<>>,
       json |-> "object", obj |-> ("add" :> JStr("host")) @@ ("port" :> JNum(70000)) @@ ("id" :> JStr("uuid"))],
      [text |-> "eyJhZGQiOiIiLCJwb3J0Ijo0NDMsImlkIjoidXVpZCJ9",
       alpha |-> 44, pad |-> 0, utf8 |-> TRUE, chars |-> <<>>,
       json |-> "object", obj |-> ("add" :> JStr("")) @@ ("port" :> JNum(443)) @@ ("id" :> JStr("uuid"))],
      [text |-> "eyJhZGQiOiJob3N0IiwicG9ydCI6NDQzLCJpZCI6InV1aWQiLCJwcyI6IiJ9",
       alpha |-> 60, pad |-> 0, utf8 |-> TRUE, chars |-> <<>>,
       json |-> "object", obj |-> ("add" :> JStr("host")) @@ ("port" :> JNum(443)) @@ ("id" :> JStr("uuid")) @@ ("ps" :> JStr(""))],
      [text |-> "eyJhZGQiOiJob3N0IiwicG9ydCI6NDQzLCJpZCI6InV1aWQiLCJhaWQiOiJhYmMifQ==",
       alpha |-> 66, pad |-> 2, utf8 |-> TRUE, chars |-> <<>>,
       json |-> "object", obj |-> ("add" :> JStr("host")) @@ ("port" :> JNum(443)) @@ ("id" :> JStr("uuid")) @@ ("aid" :> JStr("abc"))],
      [text |-> "eyJhZGQiOiJob3N0IiwicG9ydCI6ODAsImlkIjoidTIiLCJuZXQiOiJncnBjIiwicGF0aCI6ImE6YiIsImhvc3QiOiJjIn0=",
       alpha |-> 95, pad |-> 1, utf8 |-> TRUE, chars |-> <<>>,
       json |-> "object", obj |-> ("add" :> JStr("host")) @@ ("port" :> JNum(80)) @@ ("id" :> JStr("u2")) @@ ("net" :> JStr("grpc")) @@ ("path" :> JStr("a:b")) @@ ("host" :> JStr("c"))],
      [text |-> "eyJhZGQiOiJob3N0IiwicG9ydCI6ODAsImlkIjoidTIiLCJuZXQiOiJncnBjIiwicGF0aCI6ImEiLCJob3N0IjoiYjpjIn0=",
       alpha |-> 95, pad |-> 1, utf8 |-> TRUE, chars |-> <<>>,
       json |-> "object", obj |-> ("add" :> JStr("host")) @@ ("port" :> JNum(80)) @@ ("id" :> JStr("u2")) @@ ("net" :> JStr("grpc")) @@ ("path" :> JStr("a")) @@ ("host" :> JStr("b:c"))],
      [text |-> "WzFd",
       alpha |-> 4, pad |-> 0, utf8 |-> TRUE, chars |-> <<"[1]">>,
       json |-> "other", obj |-> <<>>],
      [text |-> "aGVsbG8=",
       alpha |-> 7, pad |-> 1, utf8 |-> TRUE, chars |-> <<"hello">>,
       json |-> "invalid", obj |-> <<>>],
      [text |-> "YWVzLTI1Ni1nY206cGFzcw==",
       alpha |-> 22, pad |-> 2, utf8 |-> TRUE, chars |-> <<"aes-256-gcm", ":", "pass">>,
       json |-> "invalid", obj |-> <<>>],
      [text |-> "YTpiOmM=",
       alpha |-> 7, pad |-> 1, utf8 |-> TRUE, chars |-> <<"a", ":", "b", ":", "c">>,
       json |-> "invalid", obj |-> <<>>],
      [text |-> "YQ==",
       alpha |-> 2, pad |-> 2, utf8 |-> TRUE, chars |-> <<"a">>,
       json |-> "invalid", obj |-> <<>>],
      [text |-> "gA==",
       alpha |-> 2, pad |-> 2, utf8 |-> FALSE, chars |-> <<>>,
       json |-> "invalid", obj |-> <<>>],
      [text |-> "bTo=",
       alpha |-> 3, pad |-> 1, utf8 |-> TRUE, chars |-> <<"m", ":">>,
       json |-> "invalid", obj |-> <<>>],
      [text |-> "not-base64!!",
       alpha |-> 9, pad |-> 0, utf8 |-> FALSE, chars |-> <<>>,
       json |-> "invalid", obj |-> <<>>],
      [text |-> "Y===",
       alpha |-> 1, pad |-> 3, utf8 |-> FALSE, chars |-> <<>>,
       json |-> "invalid", obj |-> <<>>]
    >>

B64Entry(text) ==
    B64Base[CHOOSE i \in 1..Len(B64Base) : B64Base[i].text = text]

\* binascii.a2b_base64: the data characters must fill whole quads, the last
\* one with the help of the padding
B64Ok(text) ==
    LET e == B64Entry(text)
        r == e.alpha % 4
    IN  r = 0 \/ (r = 2 /\ e.pad >= 2) \/ (r = 3 /\ e.pad >= 1)

\* '=' * k
RECURSIVE Eqs(_)
Eqs(k) == IF k <= 0 THEN "" ELSE "=" \o Eqs(k - 1)

\* padding = 4 - len(s) % 4; if padding != 4: s += '=' * padding
PadB64(s) ==
    LET padding == 4 - (Len(s) % 4)
    IN  IF padding # 4 THEN s \o Eqs(padding) ELSE s

\* dict.get(key, dflt) on a decoded JSON object
JGet(obj, key, dflt) == IF key \in DOMAIN obj THEN obj[key] ELSE dflt

\* the Python value of a JSON value drawn as text
JText(v) ==
    CASE v.t = "str" -> v.s
      [] v.t = "null" -> NoneV
      [] OTHER -> ToString(v.n)

\* int(v): ValueError on a text that is no decimal, TypeError on None
IntOf(v) ==
    CASE v.t = "num" -> [tag |-> "int", v |-> v.n]
      [] v.t = "str" /\ IsDigit(v.s) -> [tag |-> "int", v |-> DecimalValue[v.s]]
      [] OTHER -> [tag |-> "raise", v |-> 0]

-----------------------------------------------------------------------------
(* ProxyConfig and the four parsers *)

Protocols == {"vless", "vmess", "ss", "trojan"}

ProxyConfig(protocol, name, server, port, raw_config) ==
    [protocol |-> protocol, name |-> name, server |-> server, port |-> port,
     raw_config |-> raw_config,
     uuid |-> NoneV, password |-> NoneV, method |-> NoneV, alter_id |-> Nothing,
     network |-> NoneV, security |-> NoneV, path |-> NoneV, host |-> NoneV,
     tls |-> Nothing, sni |-> NoneV, flow |-> NoneV, pbk |-> NoneV,
     sid |-> NoneV, fp |-> NoneV]

\* what a parser call ends with: a candidate, None, or an exception
Config(c) == [tag |-> "config", c |-> c]
NoneResult == [tag |-> "none"]
Raised == [tag |-> "raise"]

\* try: ... except Exception: return None
CatchNone(r) == IF r.tag = "raise" THEN NoneResult ELSE r

TlsModes == {"tls", "xtls", "reality"}

\* the try block of _parse_vless
VlessTry(url) ==
    LET uuid == UrlUsername(url)
        server == UrlHostname(url)
        port == UrlPort(url)
        query == UrlQuery(url)
        fragment == UrlFragment(url)
        name == IF fragment # "" THEN Unquote(fragment) ELSE "vless_" \o Str(server)
        security == QsGet(query, "security", "none")
    IN  IF port.tag = "raise" THEN Raised
        ELSE IF ~(Truthy(uuid) /\ Truthy(server) /\ port.tag = "int" /\ port.v # 0)
        THEN NoneResult
        ELSE Config([ProxyConfig("vless", name, server, port.v, url) EXCEPT
                !.uuid = uuid,
                !.network = QsGet(query, "type", "tcp"),
                !.security = security,
                !.path = QsGet(query, "path", ""),
                !.host = QsGet(query, "host", ""),
                !.sni = Or(QsGet(query, "sni", ""), QsGet(query, "peer", "")),
                !.flow = QsGet(query, "flow", NoneV),
                !.pbk = QsGet(query, "pbk", NoneV),
                !.sid = QsGet(query, "sid", NoneV),
                !.fp = QsGet(query, "fp", NoneV),
                !.tls = Some(security \in TlsModes)])

_parse_vless(url) == CatchNone(VlessTry(url))

\* the try block of _parse_vmess
VmessTry(url) ==
    LET b64_data == PadB64(Join(Tail(url)))
        e == B64Entry(b64_data)
        data == e.obj
        add == JGet(data, "add", JStr(""))
        port == IntOf(JGet(data, "port", JNum(0)))
        aid == IntOf(JGet(data, "aid", JNum(0)))
        dfltname == JStr("vmess_" \o Str(JText(JGet(data, "add", JStr("unknown")))))
    IN  IF ~B64Ok(b64_data) \/ ~e.utf8 \/ e.json # "object" THEN Raised
        ELSE IF port.tag = "raise" \/ aid.tag = "raise" THEN Raised
        ELSE Config([ProxyConfig("vmess", JText(JGet(data, "ps", dfltname)),
                                 JText(add), port.v, url) EXCEPT
                !.uuid = JText(JGet(data, "id", JStr(""))),
                !.alter_id = Some(aid.v),
                !.network = JText(JGet(data, "net", JStr("tcp"))),
                !.security = JText(JGet(data, "tls", JStr("none"))),
                !.path = JText(JGet(data, "path", JStr(""))),
                !.host = JText(JGet(data, "host", JStr(""))),
                !.tls = Some(JGet(data, "tls", JStr("")) = JStr("tls"))])

_parse_vmess(url) == CatchNone(VmessTry(url))

\* the inner try of _parse_ss: base64-decode the user-info and split it at
\* its first colon; on any exception fall back to the default cipher, the
\* password being user_info as the try block left it
SsUserinfo(user_info) ==
    IF user_info = NoneV
    THEN [method |-> "aes-256-gcm", password |-> NoneV]
    ELSE LET padded == PadB64(user_info)
             e == B64Entry(padded)
             c == IndexOf(e.chars, ":")
         IN  IF ~B64Ok(padded) \/ ~e.utf8 \/ c = 0
             THEN [method |-> "aes-256-gcm", password |-> padded]
             ELSE [method |-> Join(Before(e.chars, c)),
                   password |-> Join(After(e.chars, c))]

\* the try block of _parse_ss
SsTry(url) ==
    LET server == UrlHostname(url)
        port == UrlPort(url)
        fragment == UrlFragment(url)
        name == IF fragment # "" THEN Unquote(fragment) ELSE "ss_" \o Str(server)
        user_info == UrlUsername(url)
        password == UrlPassword(url)
        mp == IF Truthy(password)
              THEN [method |-> Unquote(user_info), password |-> Unquote(password)]
              ELSE SsUserinfo(user_info)
    IN  IF port.tag = "raise" THEN Raised
        ELSE IF ~Truthy(server) \/ ~(port.tag = "int" /\ port.v # 0) THEN NoneResult
        ELSE Config([ProxyConfig("ss", name, server, port.v, url) EXCEPT
                !.method = mp.method,
                !.password = mp.password])

_parse_ss(url) == CatchNone(SsTry(url))

\* the try block of _parse_trojan
TrojanTry(url) ==
    LET password == UrlUsername(url)
        server == UrlHostname(url)
        port == UrlPort(url)
        query == UrlQuery(url)
        fragment == UrlFragment(url)
        name == IF fragment # "" THEN Unquote(fragment) ELSE "trojan_" \o Str(server)
    IN  IF port.tag = "raise" THEN Raised
        ELSE IF ~(Truthy(password) /\ Truthy(server) /\ port.tag = "int" /\ port.v # 0)
        THEN NoneResult
        ELSE Config([ProxyConfig("trojan", name, server, port.v, url) EXCEPT
                !.password = password,
                !.network = QsGet(query, "type", "tcp"),
                !.path = QsGet(query, "path", ""),
                !.host = QsGet(query, "host", ""),
                !.sni = Or(QsGet(query, "sni", ""), QsGet(query, "peer", "")),
                !.tls = Some(TRUE)])

_parse_trojan(url) == CatchNone(TrojanTry(url))

parse_config_line(line0) ==
    LET line == Strip(line0)
    IN  IF line = <<>> THEN NoneResult
        ELSE IF Head(line) = "vless://" THEN _parse_vless(line)
        ELSE IF Head(line) = "vmess://" THEN _parse_vmess(line)
        ELSE IF Head(line) = "ss://" THEN _parse_ss(line)
        ELSE IF Head(line) = "trojan://" THEN _parse_trojan(line)
        ELSE NoneResult

-----------------------------------------------------------------------------
(* ConfigSourceManager *)

\* a faulty variant of _get_config_key (for C15): the display name is part
\* of the key
KeyWithName(config) ==
    Str(config.protocol) \o ":" \o Str(config.server) \o ":" \o ToString(config.port)
    \o ":" \o Str(config.name)

_get_config_key(config) ==
    IF config.protocol = "vless"
    THEN "vless:" \o Str(config.uuid) \o ":" \o Str(config.server) \o ":"
         \o ToString(config.port) \o ":" \o Str(config.network) \o ":"
         \o Str(config.security) \o ":" \o Str(config.path) \o ":" \o Str(config.host)
    ELSE IF config.protocol = "vmess"
    THEN "vmess:" \o Str(config.uuid) \o ":" \o Str(config.server) \o ":"
         \o ToString(config.port) \o ":" \o Str(config.network) \o ":"
         \o Str(config.path) \o ":" \o Str(config.host)
    ELSE IF config.protocol = "ss"
    THEN "ss:" \o Str(config.method) \o ":" \o Str(config.server) \o ":"
         \o ToString(config.port)
    ELSE IF config.protocol = "trojan"
    THEN "trojan:" \o Str(config.password) \o ":" \o Str(config.server) \o ":"
         \o ToString(config.port) \o ":" \o Str(config.network) \o ":"
         \o Str(config.path) \o ":" \o Str(config.sni)
    ELSE Join(config.raw_config)

-----------------------------------------------------------------------------
(* The input lines the model draws *)

MaxLines == 3

UriSchemes == {"vless://", "trojan://", "ss://"}

\* user-info, with its "@"
Userinfos(scheme) ==
    IF scheme = "ss://"
    THEN {<<>>, <<"YWVzLTI1Ni1nY206cGFzcw==", "@">>, <<"YWVzLTI1Ni1nY206cGFzcw", "@">>,
          <<"YQ", "@">>, <<"YTpiOmM=", "@">>, <<"gA==", "@">>, <<"bTo=", "@">>,
          <<"aes-256-gcm", ":", "pass", "@">>, <<"Y", "@">>}
    ELSE {<<>>, <<"@">>, <<"uuid", "@">>, <<"u2", ":", "p", "@">>}

Hosts == {<<>>, <<"host">>, <<"HOST">>}

Ports == {<<>>, <<":">>, <<":", "443">>, <<":", "8388">>, <<":", "0">>,
          <<":", "65536">>, <<":", "abc">>}

Queries ==
    {<<>>,
     <<"?", "type", "=", "ws", "&", "security", "=", "tls", "&", "path", "=", "/x">>,
     <<"?", "security", "=", "reality", "&", "pbk", "=", "k", "&", "peer", "=", "p">>,
     <<"/", "?", "path", "=", "&", "host", "=", "a", "&", "host", "=", "b", "&", "sni">>}

Fragments == {<<>>, <<"#", "name1">>, <<"#", "name2">>, <<"#", "name%201">>}

UriLinesOf(s) ==
    {<<s>> \o u \o h \o p \o q \o f :
        u \in Userinfos(s), h \in Hosts, p \in Ports, q \in Queries, f \in Fragments}

VmessBlobs ==
    {B64Base[i].text : i \in 1..Len(B64Base)}
        \cup {"eyJhZGQiOiJob3N0IiwicG9ydCI6NDQzLCJpZCI6InV1aWQifQ", "Y"}

VmessLines == {<<"vmess://", b>> : b \in VmessBlobs \ {"Y==="}}

OtherLines ==
    {<<>>, <<" ">>, <<"http://", "host", ":", "443">>, <<"uuid", "@", "host">>,
     <<" ", "vless://", "uuid", "@", "host", ":", "443", " ">>,
     <<"vless://">>, <<"vmess://">>}

LineUniverse ==
    UNION {UriLinesOf(s) : s \in UriSchemes} \cup VmessLines \cup OtherLines

\* the lines deduplicate is run on: duplicates under one key with different
\* names and spellings, distinct keys, and lines that do not parse
DedupLines ==
    {<<"vless://", "uuid", "@", "host", ":", "443", "?", "type", "=", "ws", "&",
       "security", "=", "tls", "&", "path", "=", "/x", "#", "name1">>,
     <<"vless://", "uuid", "@", "host", ":", "443", "?", "type", "=", "ws", "&",
       "security", "=", "tls", "&", "path", "=", "/x", "#", "name2">>,
     <<"vless://", "uuid", "@", "HOST", ":", "443", "?", "path", "=", "/x", "&",
       "security", "=", "tls", "&", "type", "=", "ws">>,
     <<"vless://", "uuid", "@", "host", ":", "443", "#", "name1">>,
     <<"vmess://", "not-base64!!">>,
     <<"vmess://", "eyJhZGQiOiJob3N0IiwicG9ydCI6NDQzLCJpZCI6InV1aWQifQ==">>,
     <<"vmess://", "eyJhZGQiOiJob3N0IiwicG9ydCI6NDQzLCJpZCI6InV1aWQifQ">>,
     <<"ss://", "YWVzLTI1Ni1nY206cGFzcw==", "@", "host", ":", "8388", "#", "s1">>,
     <<"ss://", "aes-256-gcm", ":", "pass", "@", "host", ":", "8388">>,
     <<"trojan://", "uuid", "@", "host", ":", "abc">>}

-----------------------------------------------------------------------------
(* One call of ConfigParser.parse_config_line *)

PIdle == p_line = <<>> /\ p_result = [tag |-> "idle"]

ParseInit == p_line \in LineUniverse /\ p_result = [tag |-> "pending"]

ParseLine ==
    /\ p_result.tag = "pending"
    /\ p_result' = parse_config_line(p_line)
    /\ UNCHANGED <<p_line, dvars, tvars, xvars, rvars, uvars, kvars, bvars, svars>>

-----------------------------------------------------------------------------
(* One call of ConfigSourceManager.deduplicate *)

DIdle ==
    /\ lines = <<>> /\ d_i = 1 /\ seen_keys = {} /\ configs = <<>>
    /\ d_pc = "idle" /\ d_parsed = <<>>

SeqsUpTo(S, n) == UNION {[1..k -> S] : k \in 0..n}

DedupInit ==
    /\ lines \in SeqsUpTo(DedupLines, MaxLines)
    /\ d_i = 1
    /\ seen_keys = {}
    /\ configs = <<>>
    /\ d_pc = "loop"
    /\ d_parsed = <<>>

\* DedupStep without the "key not in seen_keys" test
DedupStepNoSeenTest ==
    /\ d_pc = "loop"
    /\ d_i <= Len(lines)
    /\ \E r \in {parse_config_line(lines[d_i])} :
         /\ d_parsed' = Append(d_parsed, r)
         /\ IF r.tag = "config"
            THEN /\ seen_keys' = seen_keys \cup {_get_config_key(r.c)}
                 /\ configs' = Append(configs, r.c)
            ELSE UNCHANGED <<seen_keys, configs>>
    /\ d_i' = d_i + 1
    /\ UNCHANGED <<lines, d_pc, pvars, tvars, xvars, rvars, uvars, kvars, bvars, svars>>

\* one iteration of the for loop: a line that does not parse, or whose key
\* was seen, or whose handling raises, leaves seen_keys and configs alone
DedupStep ==
    /\ d_pc = "loop"
    /\ d_i <= Len(lines)
    /\ \E r \in {parse_config_line(lines[d_i])} :
         /\ d_parsed' = Append(d_parsed, r)
         /\ IF r.tag = "config"
            THEN \E key \in {_get_config_key(r.c)} :
                   IF key \notin seen_keys
                   THEN /\ seen_keys' = seen_keys \cup {key}
                        /\ configs' = Append(configs, r.c)
                   ELSE UNCHANGED <<seen_keys, configs>>
            ELSE UNCHANGED <<seen_keys, configs>>
    /\ d_i' = d_i + 1
    /\ UNCHANGED <<lines, d_pc, pvars, tvars, xvars, rvars, uvars, kvars, bvars, svars>>

DedupReturn ==
    /\ d_pc = "loop"
    /\ d_i > Len(lines)
    /\ d_pc' = "returned"
    /\ UNCHANGED <<lines, d_i, seen_keys, configs, d_parsed, pvars, tvars, xvars, rvars, uvars, kvars, bvars, svars>>

-----------------------------------------------------------------------------
(* The candidates the prober and the validator are run on *)

ProxyLines ==
    {<<"vless://", "uuid", "@", "host", ":", "443", "?", "type", "=", "ws", "&",
       "security", "=", "tls", "&", "path", "=", "/x", "#", "name1">>,
     <<"vless://", "uuid", "@", "host", ":", "443">>,
     <<"vless://", "uuid", "@", "host", ":", "443", "?", "security", "=", "reality",
       "&", "pbk", "=", "k", "&", "peer", "=", "p">>,
     <<"vmess://", "eyJhZGQiOiJob3N0IiwicG9ydCI6IjQ0MyIsImlkIjoidXVpZCIsInBzIjoibmFtZTEiLCJuZXQiOiJ3cyIsInBhdGgiOiIveCIsInRscyI6InRscyIsImFpZCI6IjAifQ==">>,
     <<"vmess://", "eyJhZGQiOiJob3N0IiwicG9ydCI6NDQzLCJpZCI6InV1aWQifQ==">>,
     <<"ss://", "YWVzLTI1Ni1nY206cGFzcw==", "@", "host", ":", "8388", "#", "s1">>,
     <<"trojan://", "uuid", "@", "host", ":", "443", "#", "name1">>,
     <<"trojan://", "uuid", "@", "host", ":", "443", "?", "type", "=", "grpc", "&",
       "sni", "=", "a">>}

Proxies == {parse_config_line(l).c : l \in ProxyLines}

-----------------------------------------------------------------------------
(* One call of TCPPreChecker.test_config_tcp *)

TIdle ==
    /\ t_proxy = Nothing /\ t_pc = "idle" /\ t_sock = "none"
    /\ t_cipher = FALSE /\ t_probe = "none" /\ t_ret = [tag |-> "idle"]

TcpInit ==
    /\ t_proxy \in Proxies
    /\ t_pc = "dns"
    /\ t_sock = "none"
    /\ t_cipher = FALSE
    /\ t_probe = "none"
    /\ t_ret = [tag |-> "pending"]

\* proxy.tls or proxy.security in ['tls', 'xtls', 'reality']
NeedsTls(proxy) == TruthyBool(proxy.tls) \/ proxy.security \in TlsModes

\* return (ok, msg) with the socket in state s.  A socket that is still open
\* is released only when its object is finalized: at once under reference
\* counting, at some later collection otherwise.
TcpReturn(ok, msg, s) ==
    /\ t_pc' = "returned"
    /\ t_ret' = [tag |-> "return", ok |-> ok, msg |-> msg]
    /\ t_sock' \in (IF s = "open" THEN {"open", "closed"} ELSE {s})

\* socket.getaddrinfo
TcpResolve ==
    /\ t_pc = "dns"
    /\ \E ok \in BOOLEAN :
         IF ok
         THEN t_pc' = "socket" /\ UNCHANGED <<t_ret, t_sock>>
         ELSE TcpReturn(FALSE, "DNS resolution failed", t_sock)
    /\ UNCHANGED <<t_proxy, t_cipher, t_probe, pvars, dvars, xvars, rvars, uvars, kvars, bvars, svars>>

\* socket.socket(...); sock.settimeout(...): an OSError is caught by the
\* outer handler
TcpSocket ==
    /\ t_pc = "socket"
    /\ \E ok \in BOOLEAN :
         IF ok
         THEN t_pc' = "connect" /\ t_sock' = "open" /\ UNCHANGED t_ret
         ELSE TcpReturn(FALSE, "str(e)[:40]", t_sock)
    /\ UNCHANGED <<t_proxy, t_cipher, t_probe, pvars, dvars, xvars, rvars, uvars, kvars, bvars, svars>>

\* sock.connect: on a timeout or an error the function returns without
\* closing sock; without TLS a connected socket is closed and is a pass
TcpConnect ==
    /\ t_pc = "connect"
    /\ \E outcome \in {"ok", "timeout", "error"} :
         CASE outcome = "timeout" -> TcpReturn(FALSE, "TCP timeout", t_sock)
           [] outcome = "error" -> TcpReturn(FALSE, "TCP failed: ...", t_sock)
           [] OTHER ->
                IF NeedsTls(t_proxy)
                THEN t_pc' = "wrap" /\ UNCHANGED <<t_ret, t_sock>>
                ELSE TcpReturn(TRUE, "TCP OK - ...ms", "closed")
    /\ UNCHANGED <<t_proxy, t_cipher, t_probe, pvars, dvars, xvars, rvars, uvars, kvars, bvars, svars>>

\* ssl.create_default_context() and context.wrap_socket, which performs
\* the handshake.  When the handshake fails the ssl module closes the
\* socket before raising; an error while the context is built leaves sock
\* as it is.  Both reach "except Exception as e".
TcpWrap ==
    /\ t_pc = "wrap"
    /\ \E outcome \in {"ok", "context_error", "handshake_error"} :
         CASE outcome = "ok" -> t_pc' = "cipher" /\ UNCHANGED <<t_ret, t_sock>>
           [] outcome = "context_error" -> TcpReturn(FALSE, "SSL error: ...", t_sock)
           [] OTHER -> TcpReturn(FALSE, "SSL error: ...", "closed")
    /\ UNCHANGED <<t_proxy, t_cipher, t_probe, pvars, dvars, xvars, rvars, uvars, kvars, bvars, svars>>

\* ssock.cipher(): without a cipher the with block is left, which closes ssock
TcpCipher ==
    /\ t_pc = "cipher"
    /\ \E cipher \in BOOLEAN :
         IF cipher
         THEN t_pc' = "probe" /\ t_cipher' = TRUE /\ UNCHANGED <<t_ret, t_sock>>
         ELSE TcpReturn(FALSE, "SSL handshake failed", "closed") /\ UNCHANGED t_cipher
    /\ UNCHANGED <<t_proxy, t_probe, pvars, dvars, xvars, rvars, uvars, kvars, bvars, svars>>

\* the protocol-specific probe: the Trojan send is not guarded, so its
\* error leaves the with block and reaches "except Exception as e"; the
\* VLESS header (uuid.UUID, ssock.send) is inside try/except: pass
TcpProbe ==
    /\ t_pc = "probe"
    /\ IF t_proxy.protocol = "trojan"
       THEN \E sent \in BOOLEAN :
              IF sent
              THEN t_probe' = "sent" /\ TcpReturn(TRUE, "SSL OK - ...ms", "closed")
              ELSE t_probe' = "failed" /\ TcpReturn(FALSE, "SSL error: ...", "closed")
       ELSE IF t_proxy.protocol = "vless" /\ Truthy(t_proxy.uuid)
       THEN \E sent \in BOOLEAN :
              /\ t_probe' = IF sent THEN "sent" ELSE "failed"
              /\ TcpReturn(TRUE, "SSL OK - ...ms", "closed")
       ELSE t_probe' = "none" /\ TcpReturn(TRUE, "SSL OK - ...ms", "closed")
    /\ UNCHANGED <<t_proxy, t_cipher, pvars, dvars, xvars, rvars, uvars, kvars, bvars, svars>>

-----------------------------------------------------------------------------
(* XrayConfigBuilder: dicts are records, lists are sequences *)

EmptyDict == <<>>

\* d[k] = v, executed when cond holds
SetIf(cond, d, k, v) == IF cond THEN (k :> v) @@ d ELSE d

\* proxy.alter_id or 0
AlterIdOr0(proxy) == IF proxy.alter_id = Nothing THEN 0 ELSE proxy.alter_id[1]

WsSettings(proxy) ==
    [path |-> Or(proxy.path, "/"),
     headers |-> [Host |-> Or(proxy.host, proxy.server)]]

\* a faulty variant of _build_vless_outbound (for C23): reality mode is
\* chosen from the security field alone, with or without a public key
BuildVlessRealityWithoutKey(proxy) ==
    LET reality == proxy.security = "reality"
        tls0 == [serverName |-> Or(proxy.sni, Or(proxy.host, proxy.server)),
                 allowInsecure |-> FALSE]
        tls1 == SetIf(Truthy(proxy.fp), tls0, "fingerprint", proxy.fp)
        tls2 == IF reality
                THEN ("spiderX" :> "")
                     @@ SetIf(Truthy(proxy.sid), ("publicKey" :> proxy.pbk) @@ tls1,
                              "shortId", proxy.sid)
                ELSE tls1
        s0 == [network |-> Or(proxy.network, "tcp")]
        s1 == IF TruthyBool(proxy.tls) \/ proxy.security \in TlsModes
              THEN IF reality
                   THEN [security |-> "reality", realitySettings |-> tls2] @@ s0
                   ELSE [security |-> "tls", tlsSettings |-> tls2] @@ s0
              ELSE s0
        s2 == CASE proxy.network = "ws" -> [wsSettings |-> WsSettings(proxy)] @@ s1
                [] proxy.network = "grpc" ->
                     [grpcSettings |-> [serviceName |-> Or(proxy.path, ""),
                                        multiMode |-> FALSE]] @@ s1
                [] proxy.network = "h2" ->
                     [httpSettings |-> [path |-> Or(proxy.path, "/"),
                                        host |-> <<Or(proxy.host, proxy.server)>>]] @@ s1
                [] OTHER -> s1
    IN  [protocol |-> "vless",
         settings |-> [vnext |-> <<[address |-> proxy.server, port |-> proxy.port,
                                    users |-> <<[id |-> proxy.uuid,
                                                 encryption |-> "none",
                                                 flow |-> Or(proxy.flow, "")]>>]>>],
         streamSettings |-> s2,
         tag |-> "proxy"]

_build_vless_outbound(proxy) ==
    LET reality == proxy.security = "reality" /\ Truthy(proxy.pbk)
        tls0 == [serverName |-> Or(proxy.sni, Or(proxy.host, proxy.server)),
                 allowInsecure |-> FALSE]
        tls1 == SetIf(Truthy(proxy.fp), tls0, "fingerprint", proxy.fp)
        tls2 == IF reality
                THEN ("spiderX" :> "")
                     @@ SetIf(Truthy(proxy.sid), ("publicKey" :> proxy.pbk) @@ tls1,
                              "shortId", proxy.sid)
                ELSE tls1
        s0 == [network |-> Or(proxy.network, "tcp")]
        s1 == IF TruthyBool(proxy.tls) \/ proxy.security \in TlsModes
              THEN IF reality
                   THEN [security |-> "reality", realitySettings |-> tls2] @@ s0
                   ELSE [security |-> "tls", tlsSettings |-> tls2] @@ s0
              ELSE s0
        s2 == CASE proxy.network = "ws" -> [wsSettings |-> WsSettings(proxy)] @@ s1
                [] proxy.network = "grpc" ->
                     [grpcSettings |-> [serviceName |-> Or(proxy.path, ""),
                                        multiMode |-> FALSE]] @@ s1
                [] proxy.network = "h2" ->
                     [httpSettings |-> [path |-> Or(proxy.path, "/"),
                                        host |-> <<Or(proxy.host, proxy.server)>>]] @@ s1
                [] OTHER -> s1
    IN  [protocol |-> "vless",
         settings |-> [vnext |-> <<[address |-> proxy.server, port |-> proxy.port,
                                    users |-> <<[id |-> proxy.uuid,
                                                 encryption |-> "none",
                                                 flow |-> Or(proxy.flow, "")]>>]>>],
         streamSettings |-> s2,
         tag |-> "proxy"]

_build_vmess_outbound(proxy) ==
    LET s0 == [network |-> Or(proxy.network, "tcp")]
        s1 == IF TruthyBool(proxy.tls)
              THEN [security |-> "tls",
                    tlsSettings |-> [serverName |-> Or(proxy.host, proxy.server),
                                     allowInsecure |-> FALSE]] @@ s0
              ELSE s0
        s2 == CASE proxy.network = "ws" -> [wsSettings |-> WsSettings(proxy)] @@ s1
                [] proxy.network = "grpc" ->
                     [grpcSettings |-> [serviceName |-> Or(proxy.path, "")]] @@ s1
                [] OTHER -> s1
    IN  [protocol |-> "vmess",
         settings |-> [vnext |-> <<[address |-> proxy.server, port |-> proxy.port,
                                    users |-> <<[id |-> proxy.uuid,
                                                 alterId |-> AlterIdOr0(proxy),
                                                 security |-> "auto"]>>]>>],
         streamSettings |-> s2,
         tag |-> "proxy"]

_build_ss_outbound(proxy) ==
    [protocol |-> "shadowsocks",
     settings |-> [servers |-> <<[address |-> proxy.server, port |-> proxy.port,
                                  method |-> Or(proxy.method, "aes-256-gcm"),
                                  password |-> Or(proxy.password, "")]>>],
     streamSettings |-> EmptyDict,
     tag |-> "proxy"]

_build_trojan_outbound(proxy) ==
    LET s0 == [network |-> Or(proxy.network, "tcp"),
               security |-> "tls",
               tlsSettings |-> [serverName |-> Or(proxy.sni, Or(proxy.host, proxy.server)),
                                allowInsecure |-> FALSE]]
        s1 == CASE proxy.network = "ws" -> [wsSettings |-> WsSettings(proxy)] @@ s0
                [] proxy.network = "grpc" ->
                     [grpcSettings |-> [serviceName |-> Or(proxy.path, "")]] @@ s0
                [] OTHER -> s0
    IN  [protocol |-> "trojan",
         settings |-> [servers |-> <<[address |-> proxy.server, port |-> proxy.port,
                                      password |-> proxy.password,
                                      flow |-> ""]>>],
         streamSettings |-> s1,
         tag |-> "proxy"]

\* a faulty variant of _build_outbound (for C18): it has no branch for
\* trojan, so a trojan candidate reaches the ValueError
BuildOutboundWithoutTrojan(proxy) ==
    CASE proxy.protocol = "vless" -> [tag |-> "dict", d |-> _build_vless_outbound(proxy)]
      [] proxy.protocol = "vmess" -> [tag |-> "dict", d |-> _build_vmess_outbound(proxy)]
      [] proxy.protocol = "ss" -> [tag |-> "dict", d |-> _build_ss_outbound(proxy)]
      [] OTHER -> Raised

\* the outbound, or the ValueError for a protocol outside the four
_build_outbound(proxy) ==
    CASE proxy.protocol = "vless" -> [tag |-> "dict", d |-> _build_vless_outbound(proxy)]
      [] proxy.protocol = "vmess" -> [tag |-> "dict", d |-> _build_vmess_outbound(proxy)]
      [] proxy.protocol = "ss" -> [tag |-> "dict", d |-> _build_ss_outbound(proxy)]
      [] proxy.protocol = "trojan" -> [tag |-> "dict", d |-> _build_trojan_outbound(proxy)]
      [] OTHER -> Raised

build_config(proxy, local_port) ==
    LET inbound == [port |-> local_port,
                    protocol |-> "socks",
                    settings |-> [auth |-> "noauth", udp |-> TRUE, ip |-> "127.0.0.1"],
                    sniffing |-> [enabled |-> TRUE, destOverride |-> <<"http", "tls">>]]
        outbound == _build_outbound(proxy)
    IN  IF outbound.tag = "raise"
        THEN Raised
        ELSE [tag |-> "dict",
              d |-> [log |-> [loglevel |-> "none"],
                     inbounds |-> <<inbound>>,
                     outbounds |-> <<outbound.d, [protocol |-> "freedom", tag |-> "direct"]>>,
                     routing |-> [rules |-> <<[type |-> "field", outboundTag |-> "direct",
                                               ip |-> <<"geoip:private">>]>>]]]

-----------------------------------------------------------------------------
(* One call of XrayValidator.test_config_with_xray *)

\* ports the kernel may hand out for bind(('127.0.0.1', 0))
FreePorts == {49152, 49153}

\* what _test_through_proxy can return: -1 on any failure, else the elapsed
\* wall-clock milliseconds
Latencies == {-1, 0, 35, 120}

XIdle ==
    /\ x_proxy = Nothing /\ x_pc = "idle" /\ x_port = 0 /\ x_config = Nothing
    /\ x_file = "none" /\ x_proc = "none" /\ x_latency = 0
    /\ x_raised = FALSE /\ x_ret = [tag |-> "idle"] /\ x_trace = <<>>

XrayInit ==
    /\ x_proxy \in Proxies
    /\ x_pc = "find_port"
    /\ x_port = 0
    /\ x_config = Nothing
    /\ x_file = "none"
    /\ x_proc = "none"
    /\ x_latency = 0
    /\ x_raised = FALSE
    /\ x_ret = [tag |-> "pending"]
    /\ x_trace = <<<<"find_port", "none">>>>

Return(success, latency) == [tag |-> "return", success |-> success, latency |-> latency]

\* an exception raised before the try statement leaves the function
XPropagate ==
    /\ x_pc' = "done"
    /\ x_raised' = TRUE
    /\ x_ret' = Raised

\* an exception raised inside the try statement reaches "except Exception"
XToHandler ==
    /\ x_pc' = "handler"
    /\ x_raised' = TRUE

\* local_port = self._find_free_port(): socket(), bind, getsockname, close
XFindFreePort ==
    /\ x_pc = "find_port"
    /\ \/ \E port \in FreePorts :
            /\ x_port' = port
            /\ x_pc' = "build"
            /\ UNCHANGED <<x_raised, x_ret>>
       \/ XPropagate /\ UNCHANGED x_port
    /\ UNCHANGED <<x_proxy, x_config, x_file, x_proc, x_latency, pvars, dvars, tvars, rvars, uvars, kvars, bvars, svars>>
    /\ x_trace' = Append(x_trace, <<x_pc', x_proc'>>)

\* config = XrayConfigBuilder.build_config(proxy, local_port)
XBuildConfig ==
    /\ x_pc = "build"
    /\ \E r \in {build_config(x_proxy, x_port)} :
         IF r.tag = "raise"
         THEN XPropagate /\ UNCHANGED x_config
         ELSE /\ x_config' = Some(r.d)
              /\ x_pc' = "mkstemp"
              /\ UNCHANGED <<x_raised, x_ret>>
    /\ UNCHANGED <<x_proxy, x_port, x_file, x_proc, x_latency, pvars, dvars, tvars, rvars, uvars, kvars, bvars, svars>>
    /\ x_trace' = Append(x_trace, <<x_pc', x_proc'>>)

\* config_fd, config_path = tempfile.mkstemp(suffix='.json'); process = None
XMkstemp ==
    /\ x_pc = "mkstemp"
    /\ \/ /\ x_file' = "empty"
          /\ x_pc' = "write"
          /\ UNCHANGED <<x_raised, x_ret>>
       \/ XPropagate /\ UNCHANGED x_file
    /\ UNCHANGED <<x_proxy, x_port, x_config, x_proc, x_latency, pvars, dvars, tvars, rvars, uvars, kvars, bvars, svars>>
    /\ x_trace' = Append(x_trace, <<x_pc', x_proc'>>)

\* with os.fdopen(config_fd, 'w') as f: json.dump(config, f)
XWriteConfig ==
    /\ x_pc = "write"
    /\ \/ /\ x_file' = "written"
          /\ x_pc' = "popen"
          /\ UNCHANGED x_raised
       \/ XToHandler /\ UNCHANGED x_file
    /\ UNCHANGED <<x_proxy, x_port, x_config, x_proc, x_latency, x_ret,
                   pvars, dvars, tvars, rvars, uvars, kvars, bvars, svars>>
    /\ x_trace' = Append(x_trace, <<x_pc', x_proc'>>)

\* process = subprocess.Popen(...): OSError when the binary cannot be started
XPopen ==
    /\ x_pc = "popen"
    /\ \/ /\ x_proc' = "running"
          /\ x_pc' = "sleep"
          /\ UNCHANGED x_raised
       \/ XToHandler /\ UNCHANGED x_proc
    /\ UNCHANGED <<x_proxy, x_port, x_config, x_file, x_latency, x_ret,
                   pvars, dvars, tvars, rvars, uvars, kvars, bvars, svars>>
    /\ x_trace' = Append(x_trace, <<x_pc', x_proc'>>)

\* time.sleep(2.0): the child may exit on its own meanwhile
XSleep ==
    /\ x_pc = "sleep"
    /\ x_proc' \in {"running", "exited"}
    /\ x_pc' = "poll"
    /\ UNCHANGED <<x_proxy, x_port, x_config, x_file, x_latency, x_raised, x_ret,
                   pvars, dvars, tvars, rvars, uvars, kvars, bvars, svars>>
    /\ x_trace' = Append(x_trace, <<x_pc', x_proc'>>)

\* a faulty variant of XPoll (for C16): the probe follows the grace interval
\* whether or not the child has exited
XPollIgnoresExit ==
    /\ x_pc = "poll"
    /\ x_pc' = "probe"
    /\ UNCHANGED x_ret
    /\ UNCHANGED <<x_proxy, x_port, x_config, x_file, x_proc, x_latency, x_raised,
                   pvars, dvars, tvars, rvars, uvars, kvars, bvars, svars>>
    /\ x_trace' = Append(x_trace, <<x_pc', x_proc'>>)

\* if process.poll() is not None: ... return False, -1
XPoll ==
    /\ x_pc = "poll"
    /\ IF x_proc = "exited"
       THEN x_ret' = Return(FALSE, -1) /\ x_pc' = "finally"
       ELSE x_pc' = "probe" /\ UNCHANGED x_ret
    /\ UNCHANGED <<x_proxy, x_port, x_config, x_file, x_proc, x_latency, x_raised,
                   pvars, dvars, tvars, rvars, uvars, kvars, bvars, svars>>
    /\ x_trace' = Append(x_trace, <<x_pc', x_proc'>>)

\* latency = self._test_through_proxy('127.0.0.1', local_port), which
\* catches every exception itself; the child may die while it is probed
XProbe ==
    /\ x_pc = "probe"
    /\ x_latency' \in Latencies
    /\ x_proc' \in {"running", "exited"}
    /\ x_pc' = "terminate"
    /\ UNCHANGED <<x_proxy, x_port, x_config, x_file, x_raised, x_ret,
                   pvars, dvars, tvars, rvars, uvars, kvars, bvars, svars>>
    /\ x_trace' = Append(x_trace, <<x_pc', x_proc'>>)

\* process.terminate()
XTerminate ==
    /\ x_pc = "terminate"
    /\ \/ x_pc' = "communicate" /\ UNCHANGED x_raised
       \/ XToHandler
    /\ UNCHANGED <<x_proxy, x_port, x_config, x_file, x_proc, x_latency, x_ret,
                   pvars, dvars, tvars, rvars, uvars, kvars, bvars, svars>>
    /\ x_trace' = Append(x_trace, <<x_pc', x_proc'>>)

\* process.communicate(timeout=3); on TimeoutExpired process.kill() and
\* process.communicate(); then return latency > 0, latency
XCommunicate ==
    /\ x_pc = "communicate"
    /\ \/ \E outcome \in {"exited", "timeout"} :
            /\ outcome = "timeout" => x_proc = "running"
            /\ x_proc' = "exited"
            /\ x_ret' = Return(x_latency > 0, x_latency)
            /\ x_pc' = "finally"
            /\ UNCHANGED x_raised
       \/ /\ x_proc = "running"
          /\ XToHandler
          /\ UNCHANGED <<x_proc, x_ret>>
    /\ UNCHANGED <<x_proxy, x_port, x_config, x_file, x_latency, pvars, dvars, tvars, rvars, uvars, kvars, bvars, svars>>
    /\ x_trace' = Append(x_trace, <<x_pc', x_proc'>>)

\* except Exception as exc: terminate and communicate(timeout=1) under
\* try/except: pass when a process exists; return False, -1.  A child that
\* ignores the terminate request outlives the one-second wait.
XHandler ==
    /\ x_pc = "handler"
    /\ x_proc' \in (IF x_proc = "running" THEN {"exited", "running"} ELSE {x_proc})
    /\ x_ret' = Return(FALSE, -1)
    /\ x_pc' = "finally"
    /\ UNCHANGED <<x_proxy, x_port, x_config, x_file, x_latency, x_raised,
                   pvars, dvars, tvars, rvars, uvars, kvars, bvars, svars>>
    /\ x_trace' = Append(x_trace, <<x_pc', x_proc'>>)

\* a faulty variant of XFinally (for C4): the finally clause removes the file only when the try
\* block ended without an exception
XFinallyKeepsFileOnError ==
    /\ x_pc = "finally"
    /\ x_file' = IF x_raised THEN x_file ELSE "removed"
    /\ x_pc' = "done"
    /\ UNCHANGED <<x_proxy, x_port, x_config, x_proc, x_latency, x_raised, x_ret,
                   pvars, dvars, tvars, rvars, uvars, kvars, bvars, svars>>
    /\ x_trace' = Append(x_trace, <<x_pc', x_proc'>>)

\* finally: os.unlink(config_path)
XFinally ==
    /\ x_pc = "finally"
    /\ x_file' = "removed"
    /\ x_pc' = "done"
    /\ UNCHANGED <<x_proxy, x_port, x_config, x_proc, x_latency, x_raised, x_ret,
                   pvars, dvars, tvars, rvars, uvars, kvars, bvars, svars>>
    /\ x_trace' = Append(x_trace, <<x_pc', x_proc'>>)

-----------------------------------------------------------------------------
(* ConfigCheckerBot.run *)

MaxConfigs == 3

\* a deduplicated list, as get_configs_with_fallback returns it
RunLines ==
    <<<<"vless://", "uuid", "@", "host", ":", "443", "?", "type", "=", "ws", "&",
        "security", "=", "tls", "&", "path", "=", "/x", "#", "name1">>,
      <<"trojan://", "uuid", "@", "host", ":", "443", "#", "name1">>,
      <<"ss://", "YWVzLTI1Ni1nY206cGFzcw==", "@", "host", ":", "8388", "#", "s1">>,
      <<"vmess://", "eyJhZGQiOiJob3N0IiwicG9ydCI6NDQzLCJpZCI6InV1aWQifQ==">>,
      <<"vless://", "uuid", "@", "host", ":", "443">>>>

RunList == [i \in 1..Len(RunLines) |-> parse_config_line(RunLines[i]).c]

FetchOutcomes ==
    LET L == Len(RunList)
    IN  {SubSeq(RunList, w[1], w[2]) :
            w \in {v \in (1..L) \X (0..L) : v[2] - v[1] + 1 \in 0..MaxConfigs}}

\* what test_config_with_xray can return
XrayResults == {Return(FALSE, -1)} \cup {Return(l > 0, l) : l \in Latencies}

\* how a call of test_config_with_xray can end: with a result or by raising
ValidatorOutcomes == XrayResults \cup {Raised}

\* _test_xray: try: return test_config_with_xray(config)
\*             except Exception: return False, -1
_test_xray(outcome) == IF outcome.tag = "raise" THEN Return(FALSE, -1) ELSE outcome

Running == [tag |-> "running"]

RIdle ==
    /\ r_pc = "idle" /\ r_configs = <<>> /\ r_f1 = <<>> /\ r_seen1 = {}
    /\ passed = <<>> /\ tcp_passed_configs = <<>> /\ r_f2 = <<>> /\ r_seen2 = {}
    /\ working_configs = <<>> /\ r_report = [at |-> "never"]

RunInit ==
    /\ r_pc = "fetch"
    /\ r_configs = <<>>
    /\ r_f1 = <<>>
    /\ r_seen1 = {}
    /\ passed = <<>>
    /\ tcp_passed_configs = <<>>
    /\ r_f2 = <<>>
    /\ r_seen2 = {}
    /\ working_configs = <<>>
    /\ r_report = [at |-> "never"]

\* list.sort(key=lambda x: x[1]): stable, ascending by latency
InsertSorted(s, e) ==
    LET later == {i \in 1..Len(s) : s[i][2] > e[2]}
    IN  IF later = {}
        THEN Append(s, e)
        ELSE LET j == CHOOSE i \in later : \A k \in later : i <= k
             IN  SubSeq(s, 1, j - 1) \o <<e>> \o SubSeq(s, j, Len(s))

RECURSIVE SortByLatency(_)
SortByLatency(s) ==
    IF s = <<>>
    THEN <<>>
    ELSE InsertSorted(SortByLatency(SubSeq(s, 1, Len(s) - 1)), s[Len(s)])

\* save_results(): the report is written from working_configs as it is
save_results(at) == [at |-> at, written |-> working_configs']

\* configs = get_configs_with_fallback(); if not configs: return;
\* otherwise _run_tcp_precheck submits one _test_tcp future per candidate
RunFetch ==
    /\ r_pc = "fetch"
    /\ \E cs \in FetchOutcomes :
         /\ r_configs' = cs
         /\ IF cs = <<>>
            THEN r_pc' = "done" /\ UNCHANGED r_f1
            ELSE r_pc' = "phase1" /\ r_f1' = [i \in 1..Len(cs) |-> "running"]
    /\ UNCHANGED <<r_seen1, passed, tcp_passed_configs, r_f2, r_seen2,
                   working_configs, r_report, pvars, dvars, tvars, xvars, uvars, kvars, bvars, svars>>

\* a worker finishes _test_tcp(config): the config when the prober said
\* success, else None
TestTcp ==
    \E i \in DOMAIN r_f1 :
    /\ r_pc = "phase1"
    /\ r_f1[i] = "running"
    /\ \E success \in BOOLEAN :
         r_f1' = [r_f1 EXCEPT ![i] = IF success THEN "pass" ELSE "fail"]
    /\ UNCHANGED <<r_pc, r_configs, r_seen1, passed, tcp_passed_configs, r_f2,
                   r_seen2, working_configs, r_report, pvars, dvars, tvars, xvars, uvars, kvars, bvars, svars>>

\* a faulty variant of TcpCollect (for C2): the loop appends whatever the future holds
TcpCollectAnyVerdict ==
    \E i \in DOMAIN r_f1 :
    /\ r_pc = "phase1"
    /\ i \notin r_seen1
    /\ r_f1[i] # "running"
    /\ r_seen1' = r_seen1 \cup {i}
    /\ passed' = Append(passed, r_configs[i])
    /\ UNCHANGED <<r_pc, r_configs, r_f1, tcp_passed_configs, r_f2, r_seen2,
                   working_configs, r_report, pvars, dvars, tvars, xvars, uvars, kvars, bvars, svars>>

\* a faulty variant of TcpCollect (for C17): a failed probe ends the run
TcpCollectAbortsOnFailure ==
    \E i \in DOMAIN r_f1 :
    /\ r_pc = "phase1"
    /\ i \notin r_seen1
    /\ r_f1[i] # "running"
    /\ r_seen1' = r_seen1 \cup {i}
    /\ passed' = IF r_f1[i] = "pass" THEN Append(passed, r_configs[i]) ELSE passed
    /\ r_pc' = IF r_f1[i] = "fail" THEN "done" ELSE r_pc
    /\ UNCHANGED <<r_configs, r_f1, tcp_passed_configs, r_f2, r_seen2,
                   working_configs, r_report, pvars, dvars, tvars, xvars, uvars, kvars, bvars, svars>>

\* one iteration of "for i, future in enumerate(as_completed(futures), 1)"
\* in _run_tcp_precheck
TcpCollect ==
    \E i \in DOMAIN r_f1 :
    /\ r_pc = "phase1"
    /\ i \notin r_seen1
    /\ r_f1[i] # "running"
    /\ r_seen1' = r_seen1 \cup {i}
    /\ passed' = IF r_f1[i] = "pass" THEN Append(passed, r_configs[i]) ELSE passed
    /\ UNCHANGED <<r_pc, r_configs, r_f1, tcp_passed_configs, r_f2, r_seen2,
                   working_configs, r_report, pvars, dvars, tvars, xvars, uvars, kvars, bvars, svars>>

\* a faulty variant of TcpPrecheckReturn (for C13): phase 1 returns after the
\* first collected future instead of after all of them
TcpPrecheckReturnEarly ==
    /\ r_pc = "phase1"
    /\ r_seen1 # {}
    /\ tcp_passed_configs' = passed
    /\ UNCHANGED working_configs
    /\ IF passed = <<>>
       THEN /\ r_report' = save_results("no survivor")
            /\ r_pc' = "done"
            /\ UNCHANGED r_f2
       ELSE /\ r_pc' = "phase2"
            /\ r_f2' = [k \in 1..Len(passed) |-> Running]
            /\ UNCHANGED r_report
    /\ UNCHANGED <<r_configs, r_f1, r_seen1, passed, r_seen2,
                   pvars, dvars, tvars, xvars, uvars, kvars, bvars, svars>>

\* return passed; self.tcp_passed_configs = ...; without a survivor
\* save_results() and return, otherwise _run_xray_validation submits one
\* _test_xray future per survivor
TcpPrecheckReturn ==
    /\ r_pc = "phase1"
    /\ r_seen1 = DOMAIN r_f1
    /\ tcp_passed_configs' = passed
    /\ UNCHANGED working_configs
    /\ IF passed = <<>>
       THEN /\ r_report' = save_results("no survivor")
            /\ r_pc' = "done"
            /\ UNCHANGED r_f2
       ELSE /\ r_pc' = "phase2"
            /\ r_f2' = [k \in 1..Len(passed) |-> Running]
            /\ UNCHANGED r_report
    /\ UNCHANGED <<r_configs, r_f1, r_seen1, passed, r_seen2,
                   pvars, dvars, tvars, xvars, uvars, kvars, bvars, svars>>

\* a worker finishes _test_xray(config)
TestXray ==
    \E k \in DOMAIN r_f2 :
    /\ r_pc = "phase2"
    /\ r_f2[k] = Running
    /\ \E outcome \in ValidatorOutcomes :
         r_f2' = [r_f2 EXCEPT ![k] = _test_xray(outcome)]
    /\ UNCHANGED <<r_pc, r_configs, r_f1, r_seen1, passed, tcp_passed_configs,
                   r_seen2, working_configs, r_report, pvars, dvars, tvars, xvars, uvars, kvars, bvars, svars>>

\* a faulty variant of XrayCollect (for C20): the result is not tested, every
\* collected candidate is appended with its latency
XrayCollectKeepsAll ==
    \E k \in DOMAIN r_f2 :
    /\ r_pc = "phase2"
    /\ k \notin r_seen2
    /\ r_f2[k] # Running
    /\ r_seen2' = r_seen2 \cup {k}
    /\ working_configs' = Append(working_configs, <<tcp_passed_configs[k], r_f2[k].latency>>)
    /\ UNCHANGED <<r_pc, r_configs, r_f1, r_seen1, passed, tcp_passed_configs,
                   r_f2, r_report, pvars, dvars, tvars, xvars, uvars, kvars, bvars, svars>>

\* a faulty variant of XrayCollect (for C26): the candidate of the entry is
\* taken from the input list at the position of the future
XrayCollectFromInput ==
    \E k \in DOMAIN r_f2 :
    /\ r_pc = "phase2"
    /\ k \notin r_seen2
    /\ r_f2[k] # Running
    /\ r_seen2' = r_seen2 \cup {k}
    /\ working_configs' =
         IF r_f2[k].success /\ r_f2[k].latency > 0
         THEN Append(working_configs, <<r_configs[k], r_f2[k].latency>>)
         ELSE working_configs
    /\ UNCHANGED <<r_pc, r_configs, r_f1, r_seen1, passed, tcp_passed_configs,
                   r_f2, r_report, pvars, dvars, tvars, xvars, uvars, kvars, bvars, svars>>

\* one iteration of the as_completed loop of _run_xray_validation
XrayCollect ==
    \E k \in DOMAIN r_f2 :
    /\ r_pc = "phase2"
    /\ k \notin r_seen2
    /\ r_f2[k] # Running
    /\ r_seen2' = r_seen2 \cup {k}
    /\ working_configs' =
         IF r_f2[k].success /\ r_f2[k].latency > 0
         THEN Append(working_configs, <<tcp_passed_configs[k], r_f2[k].latency>>)
         ELSE working_configs
    /\ UNCHANGED <<r_pc, r_configs, r_f1, r_seen1, passed, tcp_passed_configs,
                   r_f2, r_report, pvars, dvars, tvars, xvars, uvars, kvars, bvars, svars>>

\* a faulty variant of RunFinish (for C10): the report is written without sorting first
RunFinishNoSort ==
    /\ r_pc = "phase2"
    /\ r_seen2 = DOMAIN r_f2
    /\ UNCHANGED working_configs
    /\ r_report' = save_results("after phase 2")
    /\ r_pc' = "done"
    /\ UNCHANGED <<r_configs, r_f1, r_seen1, passed, tcp_passed_configs, r_f2,
                   r_seen2, pvars, dvars, tvars, xvars, uvars, kvars, bvars, svars>>

\* self.working_configs.sort(key=lambda x: x[1]); self.save_results()
RunFinish ==
    /\ r_pc = "phase2"
    /\ r_seen2 = DOMAIN r_f2
    /\ working_configs' = SortByLatency(working_configs)
    /\ r_report' = save_results("after phase 2")
    /\ r_pc' = "done"
    /\ UNCHANGED <<r_configs, r_f1, r_seen1, passed, tcp_passed_configs, r_f2,
                   r_seen2, pvars, dvars, tvars, xvars, uvars, kvars, bvars, svars>>

-----------------------------------------------------------------------------
(* The phase-2 worker pool and the local ports of its units *)

\* ThreadPoolExecutor(max_workers=4) in _run_xray_validation
XrayWorkers == 4

Units == 1..XrayWorkers

UIdle ==
    /\ u_pc = <<>> /\ u_port = <<>> /\ u_listen = <<>>

PortsInit ==
    /\ u_pc = [u \in Units |-> "idle"]
    /\ u_port = [u \in Units |-> 0]
    /\ u_listen = [u \in Units |-> FALSE]

\* the ports some socket of this machine is bound to: the probing sockets
\* of _find_free_port and the inbounds of the children that listen
BoundPorts ==
    {u_port[u] : u \in {v \in Units : u_pc[v] = "bound" \/ u_listen[v]}}

\* sock = socket.socket(...); sock.bind(('127.0.0.1', 0)): the kernel picks
\* any port no socket is bound to
UnitBind ==
    \E u \in Units, port \in FreePorts \ BoundPorts :
    /\ u_pc[u] = "idle"
    /\ u_pc' = [u_pc EXCEPT ![u] = "bound"]
    /\ u_port' = [u_port EXCEPT ![u] = port]
    /\ UNCHANGED <<u_listen, pvars, dvars, tvars, xvars, rvars, kvars, bvars, svars>>

\* port = sock.getsockname()[1]; sock.close(); return port: from here on
\* the unit holds the number, and no socket holds the port
UnitClose ==
    \E u \in Units :
    /\ u_pc[u] = "bound"
    /\ u_pc' = [u_pc EXCEPT ![u] = "allocated"]
    /\ UNCHANGED <<u_port, u_listen, pvars, dvars, tvars, xvars, rvars, kvars, bvars, svars>>

\* build_config(proxy, local_port), mkstemp, Popen, sleep: the child binds
\* its SOCKS inbound to local_port, which fails when the port is taken
UnitSpawn ==
    \E u \in Units :
    /\ u_pc[u] = "allocated"
    /\ u_pc' = [u_pc EXCEPT ![u] = "spawned"]
    /\ u_listen' = [u_listen EXCEPT ![u] = u_port[u] \notin BoundPorts]
    /\ UNCHANGED <<u_port, pvars, dvars, tvars, xvars, rvars, kvars, bvars, svars>>

\* the child has exited or was terminated and the call returns; the worker
\* thread takes the next candidate
UnitTerminate ==
    \E u \in Units :
    /\ u_pc[u] = "spawned"
    /\ u_pc' = [u_pc EXCEPT ![u] = "idle"]
    /\ u_port' = [u_port EXCEPT ![u] = 0]
    /\ u_listen' = [u_listen EXCEPT ![u] = FALSE]
    /\ UNCHANGED <<pvars, dvars, tvars, xvars, rvars, kvars, bvars, svars>>

-----------------------------------------------------------------------------
(* _get_config_key on two candidates *)

\* lines that parse, in several spellings of the same endpoint
KeyLines ==
    {<<s>> \o u \o h \o <<":", "443">> \o q \o f :
        s \in {"vless://", "trojan://"}, u \in {<<"uuid", "@">>, <<"u2", ":", "p", "@">>},
        h \in {<<"host">>, <<"HOST">>}, q \in Queries,
        f \in {<<>>, <<"#", "name1">>, <<"#", "name2">>}}
    \cup
    {<<"ss://">> \o u \o h \o <<":", "8388">> \o f :
        u \in {<<"YWVzLTI1Ni1nY206cGFzcw==", "@">>, <<"YWVzLTI1Ni1nY206cGFzcw", "@">>,
               <<"aes-256-gcm", ":", "pass", "@">>, <<"bTo=", "@">>},
        h \in {<<"host">>, <<"HOST">>},
        f \in {<<>>, <<"#", "name1">>, <<"#", "name2">>}}
    \cup VmessLines

KeyCandidates ==
    {parse_config_line(l).c : l \in {k \in KeyLines : parse_config_line(k).tag = "config"}}

KIdle == k_a = Nothing /\ k_b = Nothing /\ k_keys = Nothing

KeyInit ==
    /\ k_a \in KeyCandidates
    /\ k_b \in KeyCandidates
    /\ k_keys = Nothing

\* key = self._get_config_key(config), for both candidates
KeyPair ==
    /\ k_keys = Nothing
    /\ k_keys' = <<_get_config_key(k_a), _get_config_key(k_b)>>
    /\ UNCHANGED <<k_a, k_b, pvars, dvars, tvars, xvars, rvars, uvars, bvars, svars>>

-----------------------------------------------------------------------------
(* XrayConfigBuilder.build_config on one candidate *)

\* protocol names outside the four of the parser, one of them differing
\* from a supported name only in case
OtherProtocols == {"http", "socks", "VLESS", ""}

BIdle == b_proxy = Nothing /\ b_port = 0 /\ b_origin = "none" /\ b_result = Nothing

\* the candidate is one the parser produced, or a ProxyConfig constructed
\* with any protocol string
BuildInit ==
    /\ b_port \in FreePorts
    /\ b_result = Nothing
    /\ \/ b_origin = "parser" /\ b_proxy \in Proxies
       \/ /\ b_origin = "constructed"
          /\ b_proxy \in {[p EXCEPT !.protocol = q] :
                             p \in Proxies, q \in Protocols \cup OtherProtocols}

\* config = XrayConfigBuilder.build_config(proxy, local_port)
BuildCall ==
    /\ b_result = Nothing
    /\ b_result' = Some(build_config(b_proxy, b_port))
    /\ UNCHANGED <<b_proxy, b_port, b_origin, pvars, dvars, tvars, xvars, rvars, uvars, kvars, svars>>

-----------------------------------------------------------------------------
(* XrayConfigBuilder.build_config on VLESS candidates *)

\* values of the fields _build_vless_outbound decides the stream security on
VlessSecurities == {"none", "tls", "xtls", "reality", ""}
VlessKeys == {NoneV, "", "k"}
VlessTlsFlags == {Nothing, Some(FALSE), Some(TRUE)}
VlessNetworks == {"tcp", "ws"}

\* a VLESS ProxyConfig with every combination of these fields
VlessInit ==
    /\ b_port \in FreePorts
    /\ b_result = Nothing
    /\ b_origin = "constructed"
    /\ b_proxy \in {[ProxyConfig("vless", "name1", "host", 443, <<>>) EXCEPT
                        !.uuid = "uuid", !.security = s, !.pbk = k, !.tls = t,
                        !.network = n, !.sid = "s1"] :
                     s \in VlessSecurities, k \in VlessKeys, t \in VlessTlsFlags,
                     n \in VlessNetworks}

-----------------------------------------------------------------------------
(* One call of XrayValidator._test_through_proxy *)

\* byte values a peer may answer with: 0 (no-auth, succeeded), 5 (the
\* version, connection refused), 255 (no acceptable method)
ReplyBytes == {0, 5, 255}

\* what sock.recv(2) may return after the greeting: up to two bytes
GreetingReplies == SeqsUpTo(ReplyBytes, 2)

\* what sock.recv(10) may return after the CONNECT request: up to ten
\* bytes, of which the model draws the short ones and two full replies
ConnectReplies ==
    SeqsUpTo(ReplyBytes, 2)
        \cup {<<5, 0, 0, 1, 0, 0, 0, 0, 0, 0>>, <<5, 5, 0, 1, 0, 0, 0, 0, 0, 0>>}

\* (time.time() - start_time) * 1000: the wall clock need not have advanced
ElapsedMs == {0, 35, 120}

SIdle == s_pc = "idle" /\ s_port = 0 /\ s_steps = <<>> /\ s_ret = Nothing

SocksInit ==
    /\ s_pc = "connect"
    /\ s_port \in FreePorts
    /\ s_steps = <<>>
    /\ s_ret = Nothing

\* a step that was performed: whether it raised, and the bytes it received
SStep(name, raised, reply) == [step |-> name, raised |-> raised, reply |-> reply]

\* return latency, or the -1 of "except Exception: return -1"
SocksReturn(latency) == s_pc' = "returned" /\ s_ret' = Some(latency)

\* a call that completes or raises (a timeout of sock.settimeout included)
SCall(name, next) ==
    \E raised \in BOOLEAN :
        /\ s_steps' = Append(s_steps, SStep(name, raised, <<>>))
        /\ IF raised THEN SocksReturn(-1) ELSE s_pc' = next /\ UNCHANGED s_ret

\* socket.socket, sock.settimeout, sock.connect
SocksConnect ==
    /\ s_pc = "connect"
    /\ SCall("connect", "greeting")
    /\ UNCHANGED <<s_port, pvars, dvars, tvars, xvars, rvars, uvars, kvars, bvars>>

\* sock.sendall(b"\x05\x01\x00")
SocksGreeting ==
    /\ s_pc = "greeting"
    /\ SCall("greeting", "greeting_reply")
    /\ UNCHANGED <<s_port, pvars, dvars, tvars, xvars, rvars, uvars, kvars, bvars>>

\* if sock.recv(2) != b"\x05\x00": sock.close(); return -1
SocksGreetingReply ==
    /\ s_pc = "greeting_reply"
    /\ \/ /\ s_steps' = Append(s_steps, SStep("greeting_reply", TRUE, <<>>))
          /\ SocksReturn(-1)
       \/ \E reply \in GreetingReplies :
             /\ s_steps' = Append(s_steps, SStep("greeting_reply", FALSE, reply))
             /\ IF reply # <<5, 0>>
                THEN SocksReturn(-1)
                ELSE s_pc' = "request" /\ UNCHANGED s_ret
    /\ UNCHANGED <<s_port, pvars, dvars, tvars, xvars, rvars, uvars, kvars, bvars>>

\* sock.sendall(request): CONNECT to example.com:443 by domain name
SocksRequest ==
    /\ s_pc = "request"
    /\ SCall("request", "request_reply")
    /\ UNCHANGED <<s_port, pvars, dvars, tvars, xvars, rvars, uvars, kvars, bvars>>

\* a faulty variant of SocksRequestReply (for C24): the reply field of the
\* answer is not examined
SocksRequestReplyUnchecked ==
    /\ s_pc = "request_reply"
    /\ \/ /\ s_steps' = Append(s_steps, SStep("request_reply", TRUE, <<>>))
          /\ SocksReturn(-1)
       \/ \E response \in ConnectReplies :
             /\ s_steps' = Append(s_steps, SStep("request_reply", FALSE, response))
             /\ IF Len(response) < 2
                THEN SocksReturn(-1)
                ELSE s_pc' = "wrap" /\ UNCHANGED s_ret
    /\ UNCHANGED <<s_port, pvars, dvars, tvars, xvars, rvars, uvars, kvars, bvars>>

\* response = sock.recv(10)
\* if len(response) < 2 or response[1] != 0x00: sock.close(); return -1
SocksRequestReply ==
    /\ s_pc = "request_reply"
    /\ \/ /\ s_steps' = Append(s_steps, SStep("request_reply", TRUE, <<>>))
          /\ SocksReturn(-1)
       \/ \E response \in ConnectReplies :
             /\ s_steps' = Append(s_steps, SStep("request_reply", FALSE, response))
             /\ IF Len(response) < 2 \/ response[2] # 0
                THEN SocksReturn(-1)
                ELSE s_pc' = "wrap" /\ UNCHANGED s_ret
    /\ UNCHANGED <<s_port, pvars, dvars, tvars, xvars, rvars, uvars, kvars, bvars>>

\* ssl.create_default_context(); context.wrap_socket(sock, ...), which
\* performs the handshake on the connected socket
SocksWrap ==
    /\ s_pc = "wrap"
    /\ SCall("wrap", "handshake")
    /\ UNCHANGED <<s_port, pvars, dvars, tvars, xvars, rvars, uvars, kvars, bvars>>

\* tls_sock.do_handshake()
SocksHandshake ==
    /\ s_pc = "handshake"
    /\ SCall("handshake", "close")
    /\ UNCHANGED <<s_port, pvars, dvars, tvars, xvars, rvars, uvars, kvars, bvars>>

\* tls_sock.close()
SocksClose ==
    /\ s_pc = "close"
    /\ SCall("close", "elapsed")
    /\ UNCHANGED <<s_port, pvars, dvars, tvars, xvars, rvars, uvars, kvars, bvars>>

\* return (time.time() - start_time) * 1000
SocksElapsed ==
    /\ s_pc = "elapsed"
    /\ s_steps' = Append(s_steps, SStep("elapsed", FALSE, <<>>))
    /\ \E ms \in ElapsedMs : SocksReturn(ms)
    /\ UNCHANGED <<s_port, pvars, dvars, tvars, xvars, rvars, uvars, kvars, bvars>>

-----------------------------------------------------------------------------
(* Specifications *)

vars == <<pvars, dvars, tvars, xvars, rvars, uvars, kvars, bvars, svars>>

\* parse_config_line on every line of the universe
InitParse == ParseInit /\ DIdle /\ TIdle /\ XIdle /\ RIdle /\ UIdle /\ KIdle /\ BIdle /\ SIdle
NextParse == ParseLine
SpecParse == InitParse /\ [][NextParse]_vars

\* deduplicate on every sequence of up to MaxLines lines
InitDedup == DedupInit /\ PIdle /\ TIdle /\ XIdle /\ RIdle /\ UIdle /\ KIdle /\ BIdle /\ SIdle
NextDedup == DedupStep \/ DedupReturn
SpecDedup == InitDedup /\ [][NextDedup]_vars

\* test_config_tcp on every candidate of Proxies, under every outcome of
\* the network calls
InitTcp == TcpInit /\ PIdle /\ DIdle /\ XIdle /\ RIdle /\ UIdle /\ KIdle /\ BIdle /\ SIdle
NextTcp ==
    TcpResolve \/ TcpSocket \/ TcpConnect \/ TcpWrap \/ TcpCipher \/ TcpProbe
SpecTcp == InitTcp /\ [][NextTcp]_vars

\* test_config_tcp with the steps that are sure to end.  socket.socket does
\* not block; sock.settimeout(self.timeout) bounds connect, the handshake
\* of wrap_socket and the send of the probe, and cipher() does not block.
\* socket.getaddrinfo is called before any socket exists and takes no
\* timeout, so nothing in the function makes TcpResolve end.
TimedTcpSteps ==
    /\ WF_vars(TcpSocket)
    /\ WF_vars(TcpConnect)
    /\ WF_vars(TcpWrap)
    /\ WF_vars(TcpCipher)
    /\ WF_vars(TcpProbe)
SpecTcpLive == InitTcp /\ [][NextTcp]_vars /\ TimedTcpSteps

\* test_config_with_xray on every candidate of Proxies, under every
\* behaviour of the operating system and of the child process
InitXray == XrayInit /\ PIdle /\ DIdle /\ TIdle /\ RIdle /\ UIdle /\ KIdle /\ BIdle /\ SIdle
NextXray ==
    \/ XFindFreePort \/ XBuildConfig \/ XMkstemp \/ XWriteConfig \/ XPopen
    \/ XSleep \/ XPoll \/ XProbe \/ XTerminate \/ XCommunicate
    \/ XHandler \/ XFinally
SpecXray == InitXray /\ [][NextXray]_vars

\* run, from the fetch to the report, under every completion order of the
\* workers and every verdict of the prober and the validator
Init == RunInit /\ PIdle /\ DIdle /\ TIdle /\ XIdle /\ UIdle /\ KIdle /\ BIdle /\ SIdle
Next ==
    \/ RunFetch
    \/ TestTcp \/ TcpCollect \/ TcpPrecheckReturn
    \/ TestXray \/ XrayCollect \/ RunFinish
Spec == Init /\ [][Next]_vars

\* the four worker threads of phase 2, each running one validation after
\* another, under every interleaving of their port and process steps
InitPorts == PortsInit /\ PIdle /\ DIdle /\ TIdle /\ XIdle /\ RIdle /\ KIdle /\ BIdle /\ SIdle
NextPorts == UnitBind \/ UnitClose \/ UnitSpawn \/ UnitTerminate
SpecPorts == InitPorts /\ [][NextPorts]_vars

\* _get_config_key applied to every pair of candidates of KeyCandidates
InitKey == KeyInit /\ PIdle /\ DIdle /\ TIdle /\ XIdle /\ RIdle /\ UIdle /\ BIdle /\ SIdle
NextKey == KeyPair
SpecKey == InitKey /\ [][NextKey]_vars

\* build_config on every candidate of Proxies and on candidates constructed
\* with any protocol, for every local port
InitBuild == BuildInit /\ PIdle /\ DIdle /\ TIdle /\ XIdle /\ RIdle /\ UIdle /\ KIdle /\ SIdle
NextBuild == BuildCall
SpecBuild == InitBuild /\ [][NextBuild]_vars

\* build_config on VLESS candidates with every combination of security,
\* public key, TLS flag and network
InitVless == VlessInit /\ PIdle /\ DIdle /\ TIdle /\ XIdle /\ RIdle /\ UIdle /\ KIdle /\ SIdle
NextVless == BuildCall
SpecVless == InitVless /\ [][NextVless]_vars

\* _test_through_proxy under every answer of the peer and every failing call
InitSocks ==
    SocksInit /\ PIdle /\ DIdle /\ TIdle /\ XIdle /\ RIdle /\ UIdle /\ KIdle /\ BIdle
NextSocks ==
    \/ SocksConnect \/ SocksGreeting \/ SocksGreetingReply \/ SocksRequest
    \/ SocksRequestReply \/ SocksWrap \/ SocksHandshake \/ SocksClose \/ SocksElapsed
SpecSocks == InitSocks /\ [][NextSocks]_vars

-----------------------------------------------------------------------------
(* Properties of deduplicate *)

\* the lines the loop has handled
Processed == 1..(d_i - 1)

\* what parse_config_line returned for the i-th line
ParsedAt(i) == d_parsed[i]

KeyAt(i) == _get_config_key(ParsedAt(i).c)

\* the lines that parse and whose key no earlier line produced
FirstIdx ==
    {i \in Processed :
        /\ ParsedAt(i).tag = "config"
        /\ \A j \in 1..(i - 1) : ParsedAt(j).tag = "config" => KeyAt(j) # KeyAt(i)}

\* the k-th of them, in input order
KthFirst(k) == CHOOSE i \in FirstIdx : Cardinality({j \in FirstIdx : j < i}) = k - 1

\* two lines that differ at most in their #fragment
SameUpToFragment(l1, l2) ==
    LET a == Strip(l1)
        b == Strip(l2)
        ha == IndexOf(a, "#")
        hb == IndexOf(b, "#")
    IN  (IF ha = 0 THEN a ELSE Before(a, ha)) = (IF hb = 0 THEN b ELSE Before(b, hb))

\* C1: deduplicate's output is no longer than its input, holds no two
\* candidates with the same canonical key, and is, in input order, the
\* candidates of the first lines that produced each key; of two lines that
\* differ only in the #fragment the later one never survives.
C1_DedupFirstSeen ==
    /\ Len(configs) <= Len(lines)
    /\ \A a, b \in 1..Len(configs) :
          a # b => _get_config_key(configs[a]) # _get_config_key(configs[b])
    /\ Len(configs) = Cardinality(FirstIdx)
    /\ \A k \in 1..Len(configs) : configs[k] = ParsedAt(KthFirst(k)).c
    /\ \A i, j \in Processed :
          (i < j /\ SameUpToFragment(lines[i], lines[j]) /\ ParsedAt(i).tag = "config")
              => (ParsedAt(j).tag = "config" /\ j \notin FirstIdx)

\* deduplicate has returned two survivors of three lines, the first of which
\* carries the name of the first of two lines differing only in the fragment
C1_Witness ==
    /\ d_pc = "returned"
    /\ Len(lines) = 3
    /\ Len(configs) = 2
    /\ lines[1] # lines[2]
    /\ SameUpToFragment(lines[1], lines[2])
    /\ configs[1].name = "name1"
    /\ configs[1].raw_config = lines[1]

-----------------------------------------------------------------------------
(* Properties of parse_config_line *)

Schemes == {"vless://", "vmess://", "ss://", "trojan://"}

UnrecognizedPrefix(line) == Strip(line) = <<>> \/ Head(Strip(line)) \notin Schemes

IsUriLine(line) ==
    ~UnrecognizedPrefix(line) /\ Head(Strip(line)) # "vmess://"

IsVmessLine(line) ==
    ~UnrecognizedPrefix(line) /\ Head(Strip(line)) = "vmess://"

VmessPayload(line) == B64Entry(PadB64(Join(Tail(Strip(line)))))

\* the payload of a vmess line does not decode to a JSON object
VmessDecodeFails(line) ==
    \/ ~B64Ok(PadB64(Join(Tail(Strip(line)))))
    \/ ~VmessPayload(line).utf8
    \/ VmessPayload(line).json # "object"

\* the line carries no server or no port, or an invalid one
ServerOrPortBad(line) ==
    \/ /\ IsUriLine(line)
       /\ \/ UrlHostname(Strip(line)) = NoneV
          \/ UrlPort(Strip(line)).tag # "int"
          \/ UrlPort(Strip(line)).v \notin 1..65535
    \/ /\ IsVmessLine(line)
       /\ ~VmessDecodeFails(line)
       /\ LET obj == VmessPayload(line).obj
          IN  \/ "add" \notin DOMAIN obj
              \/ obj["add"] = JStr("")
              \/ "port" \notin DOMAIN obj
              \/ IntOf(obj["port"]).tag # "int"
              \/ IntOf(obj["port"]).v \notin 1..65535

\* C8: every candidate parse_config_line returns has a non-empty server, a
\* port in 1..65535 and one of the four protocols, and a line whose server
\* or port is absent or invalid yields no candidate.
C8_CandidateValid ==
    /\ p_result.tag = "config" =>
          /\ Truthy(p_result.c.server)
          /\ p_result.c.port \in 1..65535
          /\ p_result.c.protocol \in Protocols
    /\ (p_result.tag # "pending" /\ ServerOrPortBad(p_line)) => p_result.tag # "config"

\* the line has an unrecognized prefix, a malformed encoding, a failing
\* base64/JSON decode or a missing mandatory field
Malformed(line) ==
    \/ UnrecognizedPrefix(line)
    \/ IsVmessLine(line) /\ VmessDecodeFails(line)
    \/ ServerOrPortBad(line)

\* C9: parse_config_line returns a candidate or None and never raises, and
\* a malformed line yields None.
C9_NeverRaisesMalformedNone ==
    /\ p_result.tag \in {"pending", "config", "none"}
    /\ (p_result.tag # "pending" /\ Malformed(p_line)) => p_result.tag = "none"

\* the result is a Shadowsocks candidate of a line whose user-info has no
\* password sub-component
SsWithoutPassword ==
    /\ p_result.tag = "config"
    /\ p_result.c.protocol = "ss"
    /\ ~Truthy(UrlPassword(p_result.c.raw_config))

\* the user-info as it appears in the line
RawUserinfo == UrlUsername(p_result.c.raw_config)

\* the raw user-info base64-decodes (padding completed) to UTF-8 text that
\* contains a colon
DecodesToPair ==
    /\ RawUserinfo # NoneV
    /\ B64Ok(PadB64(RawUserinfo))
    /\ B64Entry(PadB64(RawUserinfo)).utf8
    /\ IndexOf(B64Entry(PadB64(RawUserinfo)).chars, ":") # 0

\* C21: for a Shadowsocks line without a password sub-component, a
\* user-info that decodes to text with a colon gives the method before the
\* first colon and the password after it; otherwise the method is
\* aes-256-gcm and the password is the user-info text exactly as it is in
\* the line.
C21_SsUserinfoSplitOrRaw ==
    SsWithoutPassword =>
        IF DecodesToPair
        THEN LET chars == B64Entry(PadB64(RawUserinfo)).chars
                 c == IndexOf(chars, ":")
             IN  /\ p_result.c.method = Join(Before(chars, c))
                 /\ p_result.c.password = Join(After(chars, c))
        ELSE /\ p_result.c.method = "aes-256-gcm"
             /\ p_result.c.password = RawUserinfo

\* the line of the result embeds no display name: no fragment in a URI
\* line, no ps field in the payload of a vmess line
NoEmbeddedName ==
    IF IsVmessLine(p_line)
    THEN "ps" \notin DOMAIN VmessPayload(p_line).obj
    ELSE UrlFragment(Strip(p_line)) = ""

\* C22: a candidate parsed from a line that embeds no display name is named
\* "<protocol>_<server>", from its own protocol and server fields.
C22_DefaultName ==
    (p_result.tag = "config" /\ NoEmbeddedName) =>
        p_result.c.name = p_result.c.protocol \o "_" \o Str(p_result.c.server)

-----------------------------------------------------------------------------
(* Properties of build_config *)

\* C18: build_config raises exactly when the protocol of the candidate is
\* not one of vless, vmess, ss, trojan; it returns a configuration for the
\* local port otherwise, and so for every candidate the parser produced.
C18_RaisesExactlyForUnsupported ==
    b_result # Nothing =>
        /\ b_result[1].tag = "raise" <=> b_proxy.protocol \notin Protocols
        /\ b_result[1].tag # "raise" =>
              /\ b_result[1].tag = "dict"
              /\ b_result[1].d.inbounds[1].port = b_port
        /\ b_origin = "parser" => b_result[1].tag = "dict"

C18_Witness ==
    /\ b_origin = "constructed"
    /\ b_proxy.protocol = "VLESS"
    /\ b_result = Some(Raised)

\* the streamSettings of the first outbound of the configuration built
StreamSettings == b_result[1].d.outbounds[1].streamSettings

\* streamSettings has the entry k
HasEntry(k) == k \in DOMAIN StreamSettings

\* the candidate asks for reality and carries a public key
RealityActivated == b_proxy.security = "reality" /\ Truthy(b_proxy.pbk)

\* C23: in the VLESS outbound, stream security is "reality" with
\* realitySettings exactly when the security of the candidate is reality
\* and a public key is present; with tls, xtls or reality set and reality
\* not activated it is "tls" with tlsSettings; with security none and the
\* TLS flag false there is no security entry, no tlsSettings and no
\* realitySettings.
C23_VlessStreamSecurity ==
    (b_result # Nothing /\ b_proxy.protocol = "vless") =>
        /\ RealityActivated <=>
              /\ HasEntry("security") /\ StreamSettings.security = "reality"
              /\ HasEntry("realitySettings")
        /\ RealityActivated =>
              /\ ~HasEntry("tlsSettings")
              /\ StreamSettings.realitySettings.publicKey = b_proxy.pbk
        /\ (b_proxy.security \in TlsModes /\ ~RealityActivated) =>
              /\ HasEntry("security") /\ StreamSettings.security = "tls"
              /\ HasEntry("tlsSettings")
              /\ ~HasEntry("realitySettings")
        /\ (b_proxy.security = "none" /\ ~TruthyBool(b_proxy.tls)) =>
              /\ ~HasEntry("security")
              /\ ~HasEntry("tlsSettings")
              /\ ~HasEntry("realitySettings")

C23_Witness ==
    /\ b_result # Nothing
    /\ b_proxy.protocol = "vless"
    /\ b_proxy.security = "reality"
    /\ b_proxy.pbk = NoneV
    /\ StreamSettings.security = "tls"
    /\ HasEntry("tlsSettings")

-----------------------------------------------------------------------------
(* Properties of _test_through_proxy *)

\* the positions at which a step was performed without raising
Done(name) == {i \in DOMAIN s_steps : s_steps[i].step = name /\ ~s_steps[i].raised}

\* the server selected no-auth: exactly version 5, method 0
NoAuthSelected(reply) == reply = <<5, 0>>

\* a success reply: at least the version and the reply field, the reply
\* field being 0 (succeeded)
SuccessReply(reply) == Len(reply) >= 2 /\ reply[2] = 0

\* the step failed: it raised (a timeout included) or received a short or
\* different reply
StepFailed(e) ==
    \/ e.raised
    \/ e.step = "greeting_reply" /\ ~NoAuthSelected(e.reply)
    \/ e.step = "request_reply" /\ ~SuccessReply(e.reply)

\* C24: the probe returns a positive latency only if, in this order, the
\* reply to the greeting selected no-auth, the reply to the CONNECT request
\* was a success reply and the TLS handshake completed; a step that fails
\* is the last step performed and the probe returns -1.
C24_ProbeStepsInOrder ==
    /\ (s_pc = "returned" /\ s_ret[1] > 0) =>
          \E g \in Done("greeting_reply"), c \in Done("request_reply"),
             w \in Done("wrap"), h \in Done("handshake") :
              /\ g < c /\ c < w /\ w < h
              /\ NoAuthSelected(s_steps[g].reply)
              /\ SuccessReply(s_steps[c].reply)
    /\ \A i \in DOMAIN s_steps :
          StepFailed(s_steps[i]) =>
              /\ i = Len(s_steps)
              /\ s_pc = "returned"
              /\ s_ret = Some(-1)

C24_Witness ==
    /\ s_pc = "returned"
    /\ s_ret = Some(-1)
    /\ Len(s_steps) = 5
    /\ s_steps[3] = SStep("greeting_reply", FALSE, <<5, 0>>)
    /\ s_steps[5] = SStep("request_reply", FALSE, <<5, 5, 0, 1, 0, 0, 0, 0, 0, 0>>)

-----------------------------------------------------------------------------
(* Properties of _get_config_key *)

\* the fields the key of a candidate is made of
KeyFields(c) ==
    CASE c.protocol = "vless" ->
           <<c.protocol, c.uuid, c.server, c.port, c.network, c.security, c.path, c.host>>
      [] c.protocol = "vmess" ->
           <<c.protocol, c.uuid, c.server, c.port, c.network, c.path, c.host>>
      [] c.protocol = "ss" -> <<c.protocol, c.method, c.server, c.port>>
      [] c.protocol = "trojan" ->
           <<c.protocol, c.password, c.server, c.port, c.network, c.path, c.sni>>

\* C15: two candidates that agree on the key fields of their protocol have
\* the same key, whatever their names and raw lines.
C15_KeyFromKeyFieldsOnly ==
    (k_keys # Nothing /\ KeyFields(k_a) = KeyFields(k_b)) => k_keys[1] = k_keys[2]

\* C25: two candidates of the same protocol with the same key agree on
\* every key field of that protocol, also when a field contains ':'.
C25_KeyInjective ==
    (k_keys # Nothing /\ k_a.protocol = k_b.protocol /\ k_keys[1] = k_keys[2]) =>
        KeyFields(k_a) = KeyFields(k_b)

\* two Trojan candidates with different names and raw lines, the same key
\* fields and the same computed key
C15_Witness ==
    /\ k_keys # Nothing
    /\ k_a.protocol = "trojan"
    /\ KeyFields(k_a) = KeyFields(k_b)
    /\ k_a.name # k_b.name
    /\ k_a.raw_config # k_b.raw_config
    /\ k_keys[1] = k_keys[2]

-----------------------------------------------------------------------------
(* Properties of test_config_tcp *)

\* C6: when test_config_tcp has returned, the socket it opened is closed.
C6_SocketClosed == t_pc = "returned" => t_sock # "open"

\* C7: once a cipher was negotiated the verdict is success, whatever
\* happens to the protocol-specific probe.
C7_HandshakeDecides == (t_pc = "returned" /\ t_cipher) => t_ret.ok

\* C19: every blocking step of the probe is bounded by its own timeout, so
\* a call of test_config_tcp on an unresponsive candidate eventually
\* returns to its worker and the batch can reach its barrier.
C19_ProbeEventuallyReturns == <>(t_pc = "returned")

-----------------------------------------------------------------------------
(* Properties of test_config_with_xray *)

\* C3: every exception raised during the call is turned into the result
\* (False, -1); the call never ends by raising.
C3_ExceptionsBecomeFailure ==
    x_pc = "done" => /\ x_ret.tag = "return"
                     /\ x_raised => x_ret = Return(FALSE, -1)

C5_NoOrphanChild == x_pc = "done" => x_proc # "running"

\* the steps reached so far, without the child's state
Steps == [i \in DOMAIN x_trace |-> x_trace[i][1]]

\* Popen raised: the step after "popen" was reached without a process
SpawnFailed ==
    \E i \in 1..(Len(x_trace) - 1) : x_trace[i][1] = "popen" /\ x_trace[i + 1][2] = "none"

\* the child had exited when the grace interval ended
ExitedEarly == \E i \in DOMAIN x_trace : x_trace[i] = <<"poll", "exited">>

\* the child was running when the grace interval ended
ReadyAfterGrace == \E i \in DOMAIN x_trace : x_trace[i] = <<"poll", "running">>

\* the state of the validator's state machine a step belongs to; the
\* exception handler of a call that has a child terminates the child
StateOf(e) ==
    CASE e[1] \in {"find_port", "build", "mkstemp", "write"} -> "Configuring"
      [] e[1] = "popen" -> "Spawning"
      [] e[1] \in {"sleep", "poll"} -> "AwaitingReady"
      [] e[1] = "probe" -> "Probing"
      [] e[1] \in {"terminate", "communicate"} -> "Terminating"
      [] e[1] = "handler" -> IF e[2] = "none" THEN "Done" ELSE "Terminating"
      [] OTHER -> "Done"

\* the states passed through, each listed once per visit
RECURSIVE StatesOf(_)
StatesOf(tr) ==
    IF tr = <<>>
    THEN <<>>
    ELSE LET rest == StatesOf(SubSeq(tr, 1, Len(tr) - 1))
             s == StateOf(tr[Len(tr)])
         IN  IF rest # <<>> /\ rest[Len(rest)] = s THEN rest ELSE Append(rest, s)

-----------------------------------------------------------------------------
(* Properties of run *)

PassedIdx == {i \in DOMAIN r_f1 : r_f1[i] = "pass"}

\* C2: whatever the order in which the phase-1 futures complete, the list
\* _run_tcp_precheck returns holds each passing candidate exactly once and
\* nothing else.
C2_PrecheckReturnsPassers ==
    r_pc \in {"phase2", "done"} =>
        /\ Len(tcp_passed_configs) = Cardinality(PassedIdx)
        /\ \A i \in PassedIdx :
             Cardinality({k \in DOMAIN tcp_passed_configs :
                             tcp_passed_configs[k] = r_configs[i]}) = 1
        /\ \A k \in DOMAIN tcp_passed_configs :
             \E i \in PassedIdx : tcp_passed_configs[k] = r_configs[i]

\* three candidates, the second fails, and the third completes before the
\* first
C2_Witness ==
    /\ r_pc = "phase2"
    /\ Len(r_configs) = 3
    /\ r_f1[2] = "fail"
    /\ tcp_passed_configs = <<r_configs[3], r_configs[1]>>

Ascending(s) == \A k \in 1..(Len(s) - 1) : s[k][2] <= s[k + 1][2]

\* C10: the list that run hands to save_results after phase 2 is in
\* ascending order of latency.
C10_ReportSorted ==
    r_report.at = "after phase 2" =>
        /\ r_report.written = working_configs
        /\ Ascending(working_configs)

\* the slower candidate was validated first in submission order, and the
\* report lists the faster one first
C10_Witness ==
    /\ r_report.at = "after phase 2"
    /\ Len(r_report.written) = 2
    /\ r_f2[1] = Return(TRUE, 120) /\ r_f2[2] = Return(TRUE, 35)
    /\ r_report.written = <<<<tcp_passed_configs[2], 35>>, <<tcp_passed_configs[1], 120>>>>

\* the position of candidate c in the list phase 1 returned
PassedIndexOf(c) == CHOOSE k \in DOMAIN tcp_passed_configs : tcp_passed_configs[k] = c

\* the validation result of the i-th fetched candidate, which passed phase 1
OutcomeOf(i) == r_f2[PassedIndexOf(r_configs[i])]

\* the i-th fetched candidate passed phase 1 and was validated with success
\* and a positive latency
Validated(i) ==
    /\ r_f1[i] = "pass"
    /\ OutcomeOf(i).success
    /\ OutcomeOf(i).latency > 0

\* the validated candidates among the first n fetched, in fetch order
RECURSIVE ValidatedUpTo(_)
ValidatedUpTo(n) ==
    IF n = 0
    THEN <<>>
    ELSE IF Validated(n)
         THEN Append(ValidatedUpTo(n - 1), <<r_configs[n], OutcomeOf(n).latency>>)
         ELSE ValidatedUpTo(n - 1)

\* C11: the report is a function of the candidates and their outcomes alone:
\* whatever the completion order, it is the validated candidates ordered by
\* latency, candidates of equal latency in fetch order.
C11_ReportIndependentOfOrder ==
    r_report.at = "after phase 2" =>
        r_report.written = SortByLatency(ValidatedUpTo(Len(r_configs)))

\* C13: phase 2 starts only when every phase-1 probe has completed and been
\* collected and the list of survivors is complete; the sort and the report
\* happen only when every phase-2 validation has completed and been collected.
C13_PhaseBarriers ==
    /\ (r_pc = "phase2" \/ r_f2 # <<>>) =>
          /\ \A i \in DOMAIN r_f1 : r_f1[i] # "running"
          /\ r_seen1 = DOMAIN r_f1
          /\ Len(tcp_passed_configs) = Cardinality(PassedIdx)
    /\ r_report.at = "after phase 2" =>
          /\ \A j \in DOMAIN r_f2 : r_f2[j] # Running
          /\ r_seen2 = DOMAIN r_f2

\* a run of three candidates in which one failed phase 1, two were validated
\* and the report was written
C13_Witness ==
    /\ r_report.at = "after phase 2"
    /\ Len(r_configs) = 3
    /\ Cardinality(PassedIdx) = 2
    /\ Len(r_f2) = 2
    /\ Len(r_report.written) = 1

\* the run ended before phase 2
EndedEarly == r_pc = "done" /\ r_report.at # "after phase 2"

\* C14: the run ends early only when nothing was fetched or nothing survived
\* phase 1, and in both cases the empty report has been written by
\* save_results when run returns.
C14_EarlyEndWritesReport ==
    EndedEarly =>
        /\ r_configs = <<>> \/ tcp_passed_configs = <<>>
        /\ r_report.at # "never"
        /\ r_report.written = <<>>

\* C17: a candidate that fails or raises in a phase does not end the batch:
\* when the run has ended, every candidate of phase 1 and every survivor of
\* phase 2 has been processed and collected, every validated candidate is in
\* the report, and the report is written.
C17_FailuresStayLocal ==
    (r_pc = "done" /\ r_configs # <<>>) =>
        /\ r_seen1 = DOMAIN r_f1
        /\ \A i \in DOMAIN r_f1 : r_f1[i] # "running"
        /\ r_report.at # "never"
        /\ tcp_passed_configs # <<>> =>
              /\ r_report.at = "after phase 2"
              /\ r_seen2 = DOMAIN r_f2
              /\ \A j \in DOMAIN r_f2 :
                   /\ r_f2[j] # Running
                   /\ r_f2[j].success =>
                         \E n \in DOMAIN r_report.written :
                             r_report.written[n] = <<tcp_passed_configs[j], r_f2[j].latency>>

\* the first candidate failed the probe, the validation of the second failed,
\* and the third is in the written report
C17_Witness ==
    /\ r_pc = "done"
    /\ Len(r_configs) = 3
    /\ r_f1 = <<"fail", "pass", "pass">>
    /\ tcp_passed_configs = <<r_configs[2], r_configs[3]>>
    /\ r_f2 = <<Return(FALSE, -1), Return(TRUE, 35)>>
    /\ r_report = [at |-> "after phase 2", written |-> <<<<r_configs[3], 35>>>>]

-----------------------------------------------------------------------------
(* Properties of the phase-2 worker pool *)

\* a unit is live from the return of _find_free_port until its child is gone
Live(u) == u_pc[u] \in {"allocated", "spawned"}

\* C12: no two live units hold the same local port.
C12_PortsExclusive ==
    \A u, v \in Units : (u # v /\ Live(u) /\ Live(v)) => u_port[u] # u_port[v]

\* the survivors whose validation result has been collected with success
\* and a latency above 0
Retainable ==
    {k \in r_seen2 : r_f2[k].success /\ r_f2[k].latency > 0}

\* C20: during and after phase 2 the entries of working_configs are exactly
\* the collected candidates whose validation returned success with a
\* latency above 0, each once and with that latency; a candidate whose
\* result has success false, latency 0 or latency -1 has no entry.
C20_RetainedIffPositiveSuccess ==
    (r_pc = "phase2" \/ r_report.at = "after phase 2") =>
        /\ \A k \in DOMAIN r_f2 :
              k \in Retainable <=>
                  \E n \in DOMAIN working_configs :
                      working_configs[n][1] = tcp_passed_configs[k]
        /\ \A n \in DOMAIN working_configs :
              /\ working_configs[n][2] > 0
              /\ \E k \in Retainable :
                    working_configs[n] = <<tcp_passed_configs[k], r_f2[k].latency>>
        /\ Len(working_configs) = Cardinality(Retainable)

C20_Witness ==
    /\ r_report.at = "after phase 2"
    /\ r_f2 = <<Return(FALSE, -1), Return(FALSE, 0), Return(TRUE, 35)>>
    /\ working_configs = <<<<tcp_passed_configs[3], 35>>>>

\* the candidates as parse_config_line created them
AsParsed == {RunList[i] : i \in DOMAIN RunList}

\* the candidates the run holds: in its input, among the survivors, in
\* the results
HeldCandidates ==
    {r_configs[i] : i \in DOMAIN r_configs}
        \cup {passed[i] : i \in DOMAIN passed}
        \cup {tcp_passed_configs[i] : i \in DOMAIN tcp_passed_configs}
        \cup {working_configs[n][1] : n \in DOMAIN working_configs}

\* C26: in every state of a run, each entry of working_configs pairs a
\* candidate of the deduplicated input that passed phase 1 with the
\* latency its own validation returned, no candidate has two entries, and
\* every candidate the run holds is as the parser created it.
C26_EntriesTraceToInput ==
    /\ \A n \in DOMAIN working_configs :
          /\ \E i \in DOMAIN r_configs :
                r_configs[i] = working_configs[n][1] /\ r_f1[i] = "pass"
          /\ \E k \in r_seen2 :
                /\ tcp_passed_configs[k] = working_configs[n][1]
                /\ r_f2[k].latency = working_configs[n][2]
    /\ \A n, o \in DOMAIN working_configs :
          n # o => working_configs[n][1] # working_configs[o][1]
    /\ HeldCandidates \subseteq AsParsed

C26_Witness ==
    /\ r_pc = "done"
    /\ r_f1 = <<"fail", "pass", "pass">>
    /\ r_f2 = <<Return(TRUE, 120), Return(TRUE, 35)>>
    /\ Len(working_configs) = 2
    /\ working_configs[1][2] = 35

=============================================================================
